---- MODULE Spec2Model ----
(***************************************************************************)
(* Token lockup contract: vesting schedules, lockups, claim and terminate  *)
(* settlement with an asynchronous ft_transfer, drafts and draft groups.   *)
(* Contract::claim, Contract::terminate, the draft operations, the account *)
(* index and Lockup::terminate follow contract/src/lib.rs,                 *)
(* contract/src/internal.rs and model/src/termination.rs.  Schedule,       *)
(* Lockup::claim, Draft, DraftGroup, the transfer callbacks, funding and   *)
(* convert_drafts follow the written specification of the repository.      *)
(***************************************************************************)
EXTENDS Integers, Sequences, FiniteSets, TLC

VARIABLES
    now,                        \* current_timestamp_sec()
    lockups,                    \* Contract.lockups: Vector<Lockup>
    account_lockups,            \* Contract.account_lockups
    deposit_whitelist,          \* Contract.deposit_whitelist
    draft_operators_whitelist,  \* Contract.draft_operators_whitelist
    next_draft_id,              \* Contract.next_draft_id
    drafts,                     \* Contract.drafts
    next_draft_group_id,        \* Contract.next_draft_group_id
    draft_groups,               \* Contract.draft_groups
    promises,                   \* ft_transfer promises whose callback has not run
    ledger                      \* history per lockup, and per funded draft group

vars == << now, lockups, account_lockups, deposit_whitelist, draft_operators_whitelist,
           next_draft_id, drafts, next_draft_group_id, draft_groups, promises, ledger >>

-----------------------------------------------------------------------------
(* Bounds of the model *)

MaxTime == 2
MaxBalance == 2
MaxDrafts == 2
MaxGroups == 2
MaxPromises == 2
MaxBatch == 2
MaxClaimIds == 2
MaxRequest == 1
BalanceLimit == 3

Accounts == {"alice", "bob", "op"}
Owners == {"alice", "bob"}
Payer == "op"

Times == 0..MaxTime
\* Lockup and draft ids a request may name: those that can exist.
Indices == 0..(MaxDrafts - 1)
GroupIds == 0..(MaxGroups - 1)

None == << >>
Some(x) == << x >>

Min(a, b) == IF a <= b THEN a ELSE b

Range(q) == {q[j] : j \in 1..Len(q)}

RECURSIVE SumOver(_, _)
SumOver(S, f) ==
    IF S = {} THEN 0
    ELSE LET x == CHOOSE y \in S : TRUE IN f[x] + SumOver(S \ {x}, f)

-----------------------------------------------------------------------------
(* Schedule *)

Checkpoint(t, b) == [timestamp |-> t, balance |-> b]

total_balance(s) == s[Len(s)].balance

unlocked_balance(s, t) ==
    IF t <= s[1].timestamp THEN s[1].balance
    ELSE IF t >= s[Len(s)].timestamp THEN total_balance(s)
    ELSE LET k == CHOOSE j \in 1..Len(s) :
                      /\ s[j].timestamp <= t
                      /\ \A m \in 1..Len(s) : s[m].timestamp <= t => m <= j
         IN s[k].balance

schedule_assert_valid(s) ==
    /\ Len(s) >= 1
    /\ \A j \in 1..(Len(s) - 1) :
          /\ s[j].timestamp < s[j + 1].timestamp
          /\ s[j].balance <= s[j + 1].balance

schedule_terminate(s, vested_balance, termination_timestamp) ==
    LET kept == SelectSeq(s, LAMBDA c : c.timestamp < termination_timestamp)
        cut == Checkpoint(termination_timestamp, vested_balance)
    IN IF kept /= << >> THEN Append(kept, cut)
       ELSE IF termination_timestamp = 0 \/ s[1].balance = vested_balance THEN << cut >>
       ELSE << Checkpoint(0, s[1].balance), cut >>

-----------------------------------------------------------------------------
(* Lockup and TerminationConfig *)

SameAsLockupSchedule == [kind |-> "SameAsLockupSchedule", schedule |-> << >>]
VestingSchedule(s) == [kind |-> "Schedule", schedule |-> s]

TerminationConfig(b, v) == [beneficiary_id |-> b, vesting_schedule |-> v]

Lockup(a, s, c, tc) ==
    [account_id |-> a, schedule |-> s, claimed_balance |-> c, termination_config |-> tc]

\* Lockup::claim: the amount is capped at what is unlocked and not yet claimed.
\* The balances are u128: the subtraction panics when claimed_balance exceeds
\* what is unlocked, which ClaimLoop tests before it calls this.
lockup_claim(lockup, index, claim_amount, t) ==
    LET unlocked == unlocked_balance(lockup.schedule, t)
        capped == Min(claim_amount, unlocked - lockup.claimed_balance)
    IN [lockup |-> [lockup EXCEPT !.claimed_balance = lockup.claimed_balance + capped],
        claim |-> [index |-> index, claim_amount |-> capped]]

\* The vested balance Lockup::terminate computes from the configured policy.
vested_balance_at(lockup, termination_config, termination_timestamp) ==
    IF termination_config.vesting_schedule.kind = "SameAsLockupSchedule"
    THEN unlocked_balance(lockup.schedule, termination_timestamp)
    ELSE unlocked_balance(termination_config.vesting_schedule.schedule, termination_timestamp)

\* The guard of schedule.terminate, with a bug: the schedule is always cut
UnvestedGuardMissing(unvested_balance) == TRUE

UnvestedGuard(unvested_balance) == unvested_balance > 0

\* The config read with a bug: claimed_balance is cleared with the config
TakeConfigAndClaimed(lockup) ==
    [lockup EXCEPT !.termination_config = None, !.claimed_balance = 0]

\* The config read with a bug: it is left in the lockup
KeepConfig(lockup) == lockup

\* self.termination_config.take(): the lockup is left without its config.
TakeConfig(lockup) == [lockup EXCEPT !.termination_config = None]

\* Lockup::terminate.  res is "ok" or the panic it ends with.
lockup_terminate(lockup, termination_timestamp) ==
    IF lockup.termination_config = None
    THEN [res |-> "AlreadyTerminated", lockup |-> lockup, unvested_balance |-> 0,
          beneficiary_id |-> Payer]
    ELSE LET termination_config == lockup.termination_config[1]
             total == total_balance(lockup.schedule)
             vested == vested_balance_at(lockup, termination_config, termination_timestamp)
             unvested == total - vested
             taken == TakeConfig(lockup)
         IN IF unvested < 0
            THEN [res |-> "Overflow", lockup |-> taken, unvested_balance |-> 0,
                  beneficiary_id |-> termination_config.beneficiary_id]
            ELSE [res |-> "ok",
                  lockup |-> IF UnvestedGuard(unvested)
                             THEN [taken EXCEPT !.schedule =
                                      schedule_terminate(lockup.schedule, vested,
                                                         termination_timestamp)]
                             ELSE taken,
                  unvested_balance |-> unvested,
                  beneficiary_id |-> termination_config.beneficiary_id]

\* Lockup::assert_new_valid through Draft::assert_new_valid: the schedule of
\* the draft is well formed and non-empty.  Nothing relates the vesting
\* schedule of a termination policy to the schedule of the lockup.
lockup_assert_new_valid(lockup) ==
    /\ schedule_assert_valid(lockup.schedule)
    /\ lockup.claimed_balance = 0

-----------------------------------------------------------------------------
(* Contract state and the account index *)

State ==
    [lockups |-> lockups, account_lockups |-> account_lockups,
     next_draft_id |-> next_draft_id, drafts |-> drafts,
     next_draft_group_id |-> next_draft_group_id, draft_groups |-> draft_groups]

\* self.lockups.get(index): lockup indices start at 0
HasLockup(st, index) == index + 1 \in DOMAIN st.lockups
LockupAt(st, index) == st.lockups[index + 1]
\* self.lockups.replace(index, lockup), with a bug: nothing is written
ReplaceLockupSkipped(st, index, lockup) == st

ReplaceLockup(st, index, lockup) == [st EXCEPT !.lockups[index + 1] = lockup]

\* self.account_lockups.get(account_id).unwrap_or_default()
IndicesOf(st, account_id) ==
    IF account_id \in DOMAIN st.account_lockups THEN st.account_lockups[account_id] ELSE {}

\* assert_deposit_whitelist with a bug: every caller passes
DepositWhitelistOpen(account_id) == TRUE

assert_deposit_whitelist(account_id) == account_id \in deposit_whitelist

assert_draft_operators_whitelist(account_id) ==
    account_id \in deposit_whitelist \/ account_id \in draft_operators_whitelist

\* internal_save_account_lockups with a bug: an empty set is stored too
internal_save_account_lockups_keeping_empty(st, account_id, indices) ==
    [st EXCEPT !.account_lockups =
        [a \in (DOMAIN st.account_lockups) \cup {account_id} |->
            IF a = account_id THEN indices ELSE st.account_lockups[a]]]

internal_save_account_lockups(st, account_id, indices) ==
    IF indices = {}
    THEN [st EXCEPT !.account_lockups =
             [a \in (DOMAIN st.account_lockups) \ {account_id} |-> st.account_lockups[a]]]
    ELSE [st EXCEPT !.account_lockups =
             [a \in (DOMAIN st.account_lockups) \cup {account_id} |->
                 IF a = account_id THEN indices ELSE st.account_lockups[a]]]

\* internal_add_lockup with a bug: the index is read after the push
internal_add_lockup_index_after_push(st, lockup) ==
    LET pushed == [st EXCEPT !.lockups = Append(st.lockups, lockup)]
        index == Len(pushed.lockups)
    IN [st |-> internal_save_account_lockups(pushed, lockup.account_id,
                    IndicesOf(st, lockup.account_id) \cup {index}),
        index |-> index]

\* internal_add_lockup with a bug: the index is the last one in use, and the
\* lockup stored there is overwritten
internal_add_lockup_overwriting(st, lockup) ==
    LET index == IF Len(st.lockups) = 0 THEN 0 ELSE Len(st.lockups) - 1
        written == IF Len(st.lockups) = 0
                   THEN [st EXCEPT !.lockups = Append(st.lockups, lockup)]
                   ELSE [st EXCEPT !.lockups[index + 1] = lockup]
    IN [st |-> internal_save_account_lockups(written, lockup.account_id,
                    IndicesOf(st, lockup.account_id) \cup {index}),
        index |-> index]

\* Returns the state and the index given to the lockup.
internal_add_lockup(st, lockup) ==
    LET index == Len(st.lockups)
        pushed == [st EXCEPT !.lockups = Append(st.lockups, lockup)]
    IN [st |-> internal_save_account_lockups(pushed, lockup.account_id,
                    IndicesOf(st, lockup.account_id) \cup {index}),
        index |-> index]

\* The ids internal_get_account_lockups returns, and whether each is in the store.
internal_get_account_lockups(st, account_id) ==
    [res |-> IF \A i \in IndicesOf(st, account_id) : HasLockup(st, i) THEN "ok" ELSE "Invariant",
     ids |-> IndicesOf(st, account_id)]

\* The check of the caller's index set, with a bug: any stored lockup is accepted
OwnershipCheckAnyOwner(st, account_id, lockup_index) == HasLockup(st, lockup_index)

\* The check of the caller's index set, with a bug: any id is accepted
OwnershipCheckMissing(st, account_id, lockup_index) == TRUE

OwnershipCheck(st, account_id, lockup_index) == lockup_index \in IndicesOf(st, account_id)

\* The orders a HashSet or HashMap of these ids may be iterated in.
IterationOrders(ids) ==
    {q \in [1..Cardinality(ids) -> ids] : \A j, k \in 1..Cardinality(ids) : j /= k => q[j] /= q[k]}

\* The closure of internal_get_account_lockups_by_id on the ids still to visit:
\* the first id that is not in the caller's set, or is in it with no lockup
\* stored, ends the call.
RECURSIVE LookupLoop(_, _, _)
LookupLoop(st, account_id, todo) ==
    IF todo = << >> THEN "ok"
    ELSE IF ~OwnershipCheck(st, account_id, Head(todo)) THEN "NotFound"
    ELSE IF ~HasLockup(st, Head(todo)) THEN "Invariant"
    ELSE LookupLoop(st, account_id, Tail(todo))

\* order is the order lockup_ids.iter() visits the ids in.
internal_get_account_lockups_by_id(st, account_id, lockup_ids, order) ==
    [res |-> LookupLoop(st, account_id, order), ids |-> lockup_ids]

\* The query lockups_by_id(account, ids): the lockups of the ids, each with
\* its id, or the failure of the lookup.
lockups_by_id(st, account_id, lockup_ids, order) ==
    LET found == internal_get_account_lockups_by_id(st, account_id, lockup_ids, order)
    IN [res |-> found.res,
        lockups |-> IF found.res = "ok" THEN [i \in found.ids |-> LockupAt(st, i)]
                    ELSE << >>]

-----------------------------------------------------------------------------
(* Requests.  A handler returns res ("ok" or the error it panics with), st  *)
(* (the state as written when it returned or panicked) and transfer (the    *)
(* ft_transfer promise it issued, if any).                                  *)

NoTransfer == << >>

Outcome(res, st, transfer) == [res |-> res, st |-> st, transfer |-> transfer]

\* A panic discards every write of the call: only an "ok" outcome is kept.
Committed(pre, out) == IF out.res = "ok" THEN out.st ELSE pre

\* The amount claimed from one lockup: the caller's, or by default what is
\* unlocked and not yet claimed.
ClaimAmountFor(lockup, amount, t) ==
    IF amount /= None THEN amount[1]
    ELSE unlocked_balance(lockup.schedule, t) - lockup.claimed_balance

\* lockup_claims.push(lockup_claim), with a bug: the claim is not recorded
RecordClaimDropped(lockup_claims, entry) == lockup_claims

\* lockup_claims.push(lockup_claim), with a bug: the list keeps the last claim only
RecordClaimKeepingLast(lockup_claims, entry) == << entry >>

\* lockup_claims.push(lockup_claim)
RecordClaim(lockup_claims, entry) == Append(lockup_claims, entry)

\* Whether claimed_balance exceeds what the schedule has unlocked at t.
Overdrawn(lockup, t) == unlocked_balance(lockup.schedule, t) < lockup.claimed_balance

\* The loop of Contract::claim over claim_amounts, todo being the ids in the
\* order the HashMap yields them: each lockup is claimed and, if its claim is
\* not zero, added to the total, written back and recorded.  The total is a
\* u128: the addition panics beyond BalanceLimit, and so does the
\* subtraction of Lockup::claim on an overdrawn lockup.
RECURSIVE ClaimLoop(_, _, _, _, _, _)
ClaimLoop(st, todo, claim_amounts, t, lockup_claims, total_claim_amount) ==
    IF todo = << >>
    THEN [res |-> "ok", st |-> st, lockup_claims |-> lockup_claims,
          total_claim_amount |-> total_claim_amount]
    ELSE LET lockup_index == Head(todo)
             c == lockup_claim(LockupAt(st, lockup_index), lockup_index,
                               claim_amounts[lockup_index], t)
         IN IF Overdrawn(LockupAt(st, lockup_index), t)
            THEN [res |-> "Overflow", st |-> st, lockup_claims |-> lockup_claims,
                  total_claim_amount |-> total_claim_amount]
            ELSE IF c.claim.claim_amount > 0
            THEN IF total_claim_amount + c.claim.claim_amount > BalanceLimit
                 THEN [res |-> "Overflow", st |-> st, lockup_claims |-> lockup_claims,
                       total_claim_amount |-> total_claim_amount]
                 ELSE ClaimLoop(ReplaceLockup(st, lockup_index, c.lockup), Tail(todo),
                                claim_amounts, t, RecordClaim(lockup_claims, c.claim),
                                total_claim_amount + c.claim.claim_amount)
            ELSE ClaimLoop(st, Tail(todo), claim_amounts, t, lockup_claims,
                           total_claim_amount)

\* The ids a claim collects: those of the request, or the caller's index set.
ClaimIds(st, account_id, amounts) ==
    IF amounts /= None THEN DOMAIN amounts[1] ELSE IndicesOf(st, account_id)

\* Contract::claim.  amounts is None (all the caller's lockups) or Some(f), f
\* mapping each requested lockup id to None or Some(amount), as the HashMap
\* the code collects the list into.  order is the order the ids are iterated
\* in, one of IterationOrders(ClaimIds(st, account_id, amounts)).  The
\* defaulted amounts are computed before the loop: their subtraction panics
\* on an overdrawn lockup before anything is written.
claim(st, account_id, amounts, t, order) ==
    LET found == IF amounts /= None
                 THEN internal_get_account_lockups_by_id(st, account_id, DOMAIN amounts[1],
                                                         order)
                 ELSE internal_get_account_lockups(st, account_id)
        Requested(i) == IF amounts = None THEN None ELSE amounts[1][i]
    IN IF found.res /= "ok" THEN Outcome(found.res, st, NoTransfer)
       ELSE IF \E i \in found.ids : Requested(i) = None /\ Overdrawn(LockupAt(st, i), t)
       THEN Outcome("Overflow", st, NoTransfer)
       ELSE LET claim_amounts ==
                    [i \in found.ids |-> ClaimAmountFor(LockupAt(st, i), Requested(i), t)]
                done == ClaimLoop(st, order, claim_amounts, t, << >>, 0)
                total_claim_amount == done.total_claim_amount
            IN IF done.res /= "ok" THEN Outcome(done.res, done.st, NoTransfer)
               ELSE IF total_claim_amount > 0
               THEN Outcome("ok", done.st,
                            Some([kind |-> "claim", receiver_id |-> account_id,
                                  amount |-> total_claim_amount,
                                  lockup_claims |-> done.lockup_claims]))
               ELSE Outcome("ok", done.st, NoTransfer)

\* The check of the termination time, with a bug: the comparison is reversed
TimestampCheckReversed(termination_timestamp, current_timestamp) ==
    termination_timestamp <= current_timestamp

TimestampCheck(termination_timestamp, current_timestamp) ==
    termination_timestamp >= current_timestamp

\* The index entry is dropped when nothing is left in the terminated lockup.
PruneTerminated(st, lockup, lockup_index) ==
    IF total_balance(lockup.schedule) = 0
    THEN internal_save_account_lockups(st, lockup.account_id,
                                       IndicesOf(st, lockup.account_id) \ {lockup_index})
    ELSE st

\* Contract::terminate.  deposit is the attached deposit in yocto,
\* termination_timestamp is None or Some(t).
terminate(st, account_id, deposit, lockup_index, termination_timestamp, current_timestamp) ==
    IF deposit /= 1 THEN Outcome("Unauthorized", st, NoTransfer)
    ELSE IF ~assert_deposit_whitelist(account_id) THEN Outcome("Unauthorized", st, NoTransfer)
    ELSE IF ~HasLockup(st, lockup_index) THEN Outcome("NotFound", st, NoTransfer)
    ELSE LET ts == IF termination_timestamp = None THEN current_timestamp
                   ELSE termination_timestamp[1]
         IN IF ~TimestampCheck(ts, current_timestamp)
            THEN Outcome("InvalidTimestamp", st, NoTransfer)
            ELSE LET r == lockup_terminate(LockupAt(st, lockup_index), ts)
                 IN IF r.res /= "ok" THEN Outcome(r.res, st, NoTransfer)
                    ELSE LET replaced == ReplaceLockup(st, lockup_index, r.lockup)
                             pruned == PruneTerminated(replaced, r.lockup, lockup_index)
                         IN IF r.unvested_balance > 0
                            THEN Outcome("ok", pruned,
                                         Some([kind |-> "terminate",
                                               receiver_id |-> r.beneficiary_id,
                                               amount |-> r.unvested_balance,
                                               lockup_claims |-> << >>]))
                            ELSE Outcome("ok", pruned, NoTransfer)

\* What a whitelist request returns: res and the two whitelists as written.
WhitelistOutcome(res, deposit, draft_operators) ==
    [res |-> res, deposit_whitelist |-> deposit, draft_operators_whitelist |-> draft_operators]

\* The accounts a deposit whitelist request names: account_ids if it is
\* given, else account_id, which is then expected.
NamedAccounts(account_id, account_ids) ==
    IF account_ids /= None THEN Range(account_ids[1]) ELSE {account_id[1]}

\* Contract::add_to_deposit_whitelist.  account_id is None or Some(account),
\* account_ids is None or Some(list).
add_to_deposit_whitelist(caller, deposit, account_id, account_ids) ==
    LET kept == WhitelistOutcome("Unauthorized", deposit_whitelist, draft_operators_whitelist)
    IN IF deposit /= 1 THEN kept
       ELSE IF ~assert_deposit_whitelist(caller) THEN kept
       ELSE IF account_ids = None /\ account_id = None
       THEN WhitelistOutcome("MissingArgument", deposit_whitelist, draft_operators_whitelist)
       ELSE WhitelistOutcome("ok",
                             deposit_whitelist \cup NamedAccounts(account_id, account_ids),
                             draft_operators_whitelist)

\* Contract::remove_from_deposit_whitelist: the whitelist may not be left empty.
remove_from_deposit_whitelist(caller, deposit, account_id, account_ids) ==
    LET kept == WhitelistOutcome("Unauthorized", deposit_whitelist, draft_operators_whitelist)
    IN IF deposit /= 1 THEN kept
       ELSE IF ~assert_deposit_whitelist(caller) THEN kept
       ELSE IF account_ids = None /\ account_id = None
       THEN WhitelistOutcome("MissingArgument", deposit_whitelist, draft_operators_whitelist)
       ELSE LET left == deposit_whitelist \ NamedAccounts(account_id, account_ids)
            IN WhitelistOutcome(IF left = {} THEN "EmptyWhitelist" ELSE "ok",
                                left, draft_operators_whitelist)

\* Contract::add_to_draft_operators_whitelist
add_to_draft_operators_whitelist(caller, deposit, account_ids) ==
    IF deposit /= 1 \/ ~assert_deposit_whitelist(caller)
    THEN WhitelistOutcome("Unauthorized", deposit_whitelist, draft_operators_whitelist)
    ELSE WhitelistOutcome("ok", deposit_whitelist,
                          draft_operators_whitelist \cup Range(account_ids))

\* Contract::remove_from_draft_operators_whitelist
remove_from_draft_operators_whitelist(caller, deposit, account_ids) ==
    IF deposit /= 1 \/ ~assert_deposit_whitelist(caller)
    THEN WhitelistOutcome("Unauthorized", deposit_whitelist, draft_operators_whitelist)
    ELSE WhitelistOutcome("ok", deposit_whitelist,
                          draft_operators_whitelist \ Range(account_ids))

\* after_ft_transfer: a failed claim transfer gives each lockup of the
\* recorded list its claimed amount back; a successful one changes nothing.
RECURSIVE RefundClaims(_, _)
RefundClaims(st, lockup_claims) ==
    IF lockup_claims = << >> THEN st
    ELSE LET c == Head(lockup_claims)
             lockup == LockupAt(st, c.index)
         IN RefundClaims(
                ReplaceLockup(st, c.index,
                    [lockup EXCEPT !.claimed_balance = lockup.claimed_balance - c.claim_amount]),
                Tail(lockup_claims))

after_ft_transfer(st, lockup_claims, promise_success) ==
    IF promise_success THEN Outcome("ok", st, NoTransfer)
    ELSE IF \E j \in 1..Len(lockup_claims) :
                LockupAt(st, lockup_claims[j].index).claimed_balance
                    < lockup_claims[j].claim_amount
    THEN Outcome("Overflow", st, NoTransfer)
    ELSE Outcome("ok", RefundClaims(st, lockup_claims), NoTransfer)

\* after_lockup_termination: the termination is kept whatever the transfer did.
\* It is given the receiver and the amount of the transfer, not the lockup.
after_lockup_termination(st, account_id, amount, promise_success) ==
    Outcome("ok", st, NoTransfer)

-----------------------------------------------------------------------------
(* Drafts and draft groups *)

Draft(g, a, s, tc) ==
    [draft_group_id |-> g, account_id |-> a, schedule |-> s, termination_config |-> tc]

DraftGroup(amount, indices, state) ==
    [total_amount |-> amount, draft_indices |-> indices, state |-> state]

draft_group_default == DraftGroup(0, {}, "Pending")

draft_total_balance(draft) == total_balance(draft.schedule)

draft_into_lockup(draft) ==
    Lockup(draft.account_id, draft.schedule, 0, draft.termination_config)

draft_assert_new_valid(draft) ==
    /\ draft.schedule /= << >>
    /\ lockup_assert_new_valid(draft_into_lockup(draft))

assert_can_add_draft(draft_group) == draft_group.state = "Pending"
assert_can_delete_draft(draft_group) == draft_group.state = "Discarded"
assert_can_convert_draft(draft_group) == draft_group.state = "Funded"
assert_can_discard(draft_group) == draft_group.state /= "Funded"
assert_can_fund(draft_group) == draft_group.state = "Pending"

MapPut(f, k, v) == [x \in (DOMAIN f) \cup {k} |-> IF x = k THEN v ELSE f[x]]
MapRemove(f, k) == [x \in (DOMAIN f) \ {k} |-> f[x]]

\* The draft group a batch works on: the copy in draft_group_lookup, read from
\* self.draft_groups the first time the batch meets the group.
LookupEntry(st, lookup, draft_group_id) ==
    IF draft_group_id \in DOMAIN lookup THEN lookup[draft_group_id]
    ELSE st.draft_groups[draft_group_id]

LookupKnows(st, lookup, draft_group_id) ==
    draft_group_id \in DOMAIN lookup \/ draft_group_id \in DOMAIN st.draft_groups

\* for (draft_group_id, draft_group) in draft_group_lookup: insert
RECURSIVE WriteGroups(_, _)
WriteGroups(st, lookup) ==
    IF DOMAIN lookup = {} THEN st
    ELSE LET g == CHOOSE x \in DOMAIN lookup : TRUE
         IN WriteGroups([st EXCEPT !.draft_groups = MapPut(st.draft_groups, g, lookup[g])],
                        MapRemove(lookup, g))

\* The write-back of delete_drafts with a bug: a group left empty is stored too
WriteGroupsKeepingEmpty(st, lookup) == WriteGroups(st, lookup)

\* for (draft_group_id, draft_group) in draft_group_lookup: remove if empty, else insert
RECURSIVE WriteOrPruneGroups(_, _)
WriteOrPruneGroups(st, lookup) ==
    IF DOMAIN lookup = {} THEN st
    ELSE LET g == CHOOSE x \in DOMAIN lookup : TRUE
         IN WriteOrPruneGroups(
                [st EXCEPT !.draft_groups =
                    IF lookup[g].draft_indices = {} THEN MapRemove(st.draft_groups, g)
                    ELSE MapPut(st.draft_groups, g, lookup[g])],
                MapRemove(lookup, g))

create_draft_group(st, account_id) ==
    IF ~assert_draft_operators_whitelist(account_id) THEN Outcome("Unauthorized", st, NoTransfer)
    ELSE LET index == st.next_draft_group_id
             inserted == [st EXCEPT !.next_draft_group_id = index + 1,
                                    !.draft_groups =
                                        MapPut(st.draft_groups, index, draft_group_default)]
         IN Outcome(IF index \in DOMAIN st.draft_groups THEN "Invariant" ELSE "ok",
                    inserted, NoTransfer)

\* The group after a draft is added, with a bug: total_amount is not raised
GroupAfterCreateNoAmount(draft_group, index, amount) ==
    [draft_group EXCEPT !.draft_indices = draft_group.draft_indices \cup {index}]

\* The group after a draft is added to it, and after a draft leaves it.
GroupAfterCreate(draft_group, index, amount) ==
    [draft_group EXCEPT !.total_amount = amount,
                        !.draft_indices = draft_group.draft_indices \cup {index}]

\* The group after a draft leaves it, with a bug: the id stays in the draft set
GroupAfterDeleteKeepingId(draft_group, draft_id, amount) ==
    [draft_group EXCEPT !.total_amount = draft_group.total_amount - amount]

GroupAfterDelete(draft_group, draft_id, amount) ==
    [draft_group EXCEPT !.total_amount = draft_group.total_amount - amount,
                        !.draft_indices = draft_group.draft_indices \ {draft_id}]

\* The closure of create_drafts with a bug: assert_can_add_draft is not called
RECURSIVE CreateLoopUnguarded(_, _, _)
CreateLoopUnguarded(st, lookup, todo) ==
    IF todo = << >> THEN [res |-> "ok", st |-> st, lookup |-> lookup]
    ELSE LET draft == Head(todo)
             g == draft.draft_group_id
         IN IF ~LookupKnows(st, lookup, g) THEN [res |-> "NotFound", st |-> st, lookup |-> lookup]
            ELSE LET draft_group == LookupEntry(st, lookup, g)
                     read == MapPut(lookup, g, draft_group)
                     index == st.next_draft_id
                     stored == [st EXCEPT !.next_draft_id = index + 1,
                                          !.drafts = MapPut(st.drafts, index, draft)]
                     amount == draft_group.total_amount + draft_total_balance(draft)
                 IN IF ~draft_assert_new_valid(draft)
                    THEN [res |-> "InvalidDraft", st |-> st, lookup |-> read]
                    ELSE IF index \in DOMAIN st.drafts
                    THEN [res |-> "Invariant", st |-> stored, lookup |-> read]
                    ELSE IF amount > BalanceLimit
                    THEN [res |-> "Overflow", st |-> stored, lookup |-> read]
                    ELSE CreateLoopUnguarded(stored,
                             MapPut(lookup, g, GroupAfterCreate(draft_group, index, amount)),
                             Tail(todo))

\* The closure of Contract::create_drafts, applied to the drafts in order.
RECURSIVE CreateLoop(_, _, _)
CreateLoop(st, lookup, todo) ==
    IF todo = << >> THEN [res |-> "ok", st |-> st, lookup |-> lookup]
    ELSE LET draft == Head(todo)
             g == draft.draft_group_id
         IN IF ~LookupKnows(st, lookup, g) THEN [res |-> "NotFound", st |-> st, lookup |-> lookup]
            ELSE LET draft_group == LookupEntry(st, lookup, g)
                     read == MapPut(lookup, g, draft_group)
                     index == st.next_draft_id
                     stored == [st EXCEPT !.next_draft_id = index + 1,
                                          !.drafts = MapPut(st.drafts, index, draft)]
                     amount == draft_group.total_amount + draft_total_balance(draft)
                 IN IF ~assert_can_add_draft(draft_group)
                    THEN [res |-> "InvalidState", st |-> st, lookup |-> read]
                    ELSE IF ~draft_assert_new_valid(draft)
                    THEN [res |-> "InvalidDraft", st |-> st, lookup |-> read]
                    ELSE IF index \in DOMAIN st.drafts
                    THEN [res |-> "Invariant", st |-> stored, lookup |-> read]
                    ELSE IF amount > BalanceLimit
                    THEN [res |-> "Overflow", st |-> stored, lookup |-> read]
                    ELSE CreateLoop(stored,
                             MapPut(lookup, g, GroupAfterCreate(draft_group, index, amount)),
                             Tail(todo))

create_drafts(st, account_id, batch) ==
    IF ~assert_draft_operators_whitelist(account_id) THEN Outcome("Unauthorized", st, NoTransfer)
    ELSE LET r == CreateLoop(st, << >>, batch)
         IN IF r.res /= "ok" THEN Outcome(r.res, r.st, NoTransfer)
            ELSE Outcome("ok", WriteGroups(r.st, r.lookup), NoTransfer)

discard_draft_group(st, account_id, draft_group_id) ==
    IF ~assert_draft_operators_whitelist(account_id) THEN Outcome("Unauthorized", st, NoTransfer)
    ELSE IF draft_group_id \notin DOMAIN st.draft_groups THEN Outcome("NotFound", st, NoTransfer)
    ELSE LET draft_group == st.draft_groups[draft_group_id]
             discarded == [draft_group EXCEPT !.state = "Discarded"]
         IN IF ~assert_can_discard(draft_group) THEN Outcome("InvalidState", st, NoTransfer)
            ELSE IF discarded.draft_indices = {}
            THEN Outcome("ok", [st EXCEPT !.draft_groups =
                                   MapRemove(st.draft_groups, draft_group_id)], NoTransfer)
            ELSE Outcome("ok", [st EXCEPT !.draft_groups =
                                   MapPut(st.draft_groups, draft_group_id, discarded)],
                         NoTransfer)

\* The loop of delete_drafts with a bug: assert_can_delete_draft is not called
RECURSIVE DeleteLoopUnguarded(_, _, _)
DeleteLoopUnguarded(st, lookup, todo) ==
    IF todo = << >> THEN [res |-> "ok", st |-> st, lookup |-> lookup]
    ELSE LET draft_id == Head(todo)
         IN IF draft_id \notin DOMAIN st.drafts
            THEN [res |-> "NotFound", st |-> st, lookup |-> lookup]
            ELSE LET draft == st.drafts[draft_id]
                     g == draft.draft_group_id
                     removed == [st EXCEPT !.drafts = MapRemove(st.drafts, draft_id)]
                 IN IF ~LookupKnows(st, lookup, g)
                    THEN [res |-> "NotFound", st |-> removed, lookup |-> lookup]
                    ELSE LET draft_group == LookupEntry(st, lookup, g)
                             read == MapPut(lookup, g, draft_group)
                             amount == draft_total_balance(draft)
                         IN IF draft_group.total_amount < amount
                                    \/ draft_id \notin draft_group.draft_indices
                            THEN [res |-> "Invariant", st |-> removed, lookup |-> read]
                            ELSE DeleteLoopUnguarded(removed,
                                     MapPut(lookup, g,
                                            GroupAfterDelete(draft_group, draft_id, amount)),
                                     Tail(todo))

\* The loop of Contract::delete_drafts.
RECURSIVE DeleteLoop(_, _, _)
DeleteLoop(st, lookup, todo) ==
    IF todo = << >> THEN [res |-> "ok", st |-> st, lookup |-> lookup]
    ELSE LET draft_id == Head(todo)
         IN IF draft_id \notin DOMAIN st.drafts
            THEN [res |-> "NotFound", st |-> st, lookup |-> lookup]
            ELSE LET draft == st.drafts[draft_id]
                     g == draft.draft_group_id
                     removed == [st EXCEPT !.drafts = MapRemove(st.drafts, draft_id)]
                 IN IF ~LookupKnows(st, lookup, g)
                    THEN [res |-> "NotFound", st |-> removed, lookup |-> lookup]
                    ELSE LET draft_group == LookupEntry(st, lookup, g)
                             read == MapPut(lookup, g, draft_group)
                             amount == draft_total_balance(draft)
                         IN IF ~assert_can_delete_draft(draft_group)
                            THEN [res |-> "InvalidState", st |-> removed, lookup |-> read]
                            ELSE IF draft_group.total_amount < amount
                                    \/ draft_id \notin draft_group.draft_indices
                            THEN [res |-> "Invariant", st |-> removed, lookup |-> read]
                            ELSE DeleteLoop(removed,
                                     MapPut(lookup, g,
                                            GroupAfterDelete(draft_group, draft_id, amount)),
                                     Tail(todo))

delete_drafts(st, draft_ids) ==
    LET r == DeleteLoop(st, << >>, draft_ids)
    IN IF r.res /= "ok" THEN Outcome(r.res, r.st, NoTransfer)
       ELSE Outcome("ok", WriteOrPruneGroups(r.st, r.lookup), NoTransfer)

\* The loop of convert_drafts: each draft of a funded group leaves the group
\* and is appended to the store as a lockup.
RECURSIVE ConvertLoop(_, _, _)
ConvertLoop(st, lookup, todo) ==
    IF todo = << >> THEN [res |-> "ok", st |-> st, lookup |-> lookup]
    ELSE LET draft_id == Head(todo)
         IN IF draft_id \notin DOMAIN st.drafts
            THEN [res |-> "NotFound", st |-> st, lookup |-> lookup]
            ELSE LET draft == st.drafts[draft_id]
                     g == draft.draft_group_id
                     removed == [st EXCEPT !.drafts = MapRemove(st.drafts, draft_id)]
                 IN IF ~LookupKnows(st, lookup, g)
                    THEN [res |-> "NotFound", st |-> removed, lookup |-> lookup]
                    ELSE LET draft_group == LookupEntry(st, lookup, g)
                             read == MapPut(lookup, g, draft_group)
                             amount == draft_total_balance(draft)
                         IN IF ~assert_can_convert_draft(draft_group)
                            THEN [res |-> "InvalidState", st |-> removed, lookup |-> read]
                            ELSE IF draft_group.total_amount < amount
                                    \/ draft_id \notin draft_group.draft_indices
                            THEN [res |-> "Invariant", st |-> removed, lookup |-> read]
                            ELSE ConvertLoop(
                                     internal_add_lockup(removed, draft_into_lockup(draft)).st,
                                     MapPut(lookup, g,
                                            GroupAfterDelete(draft_group, draft_id, amount)),
                                     Tail(todo))

\* Conversion is all-or-nothing per group: a call that leaves a draft in a
\* group it converts from fails.
convert_drafts(st, draft_ids) ==
    LET r == ConvertLoop(st, << >>, draft_ids)
    IN IF r.res /= "ok" THEN Outcome(r.res, r.st, NoTransfer)
       ELSE IF \E g \in DOMAIN r.lookup : r.lookup[g].draft_indices /= {}
       THEN Outcome("InvalidState", r.st, NoTransfer)
       ELSE Outcome("ok", WriteOrPruneGroups(r.st, r.lookup), NoTransfer)

convert_draft(st, draft_id) == convert_drafts(st, << draft_id >>)

RECURSIVE SetToSeq(_)
SetToSeq(S) ==
    IF S = {} THEN << >>
    ELSE LET x == CHOOSE y \in S : \A z \in S : y <= z IN << x >> \o SetToSeq(S \ {x})

\* The funding entry point: a Pending group that receives its total_amount
\* becomes Funded, and every draft of the group is converted in the same
\* call.
fund_draft_group(st, draft_group_id, funded_amount) ==
    IF draft_group_id \notin DOMAIN st.draft_groups THEN Outcome("NotFound", st, NoTransfer)
    ELSE LET draft_group == st.draft_groups[draft_group_id]
             funded == [st EXCEPT !.draft_groups[draft_group_id].state = "Funded"]
         IN IF ~assert_can_fund(draft_group) THEN Outcome("InvalidState", st, NoTransfer)
            ELSE IF funded_amount /= draft_group.total_amount
            THEN Outcome("InvalidAmount", st, NoTransfer)
            ELSE convert_drafts(funded, SetToSeq(draft_group.draft_indices))

-----------------------------------------------------------------------------
(* Inputs of the requests *)

\* Schedules the drafts are written with: Ramp unlocks one unit per second,
\* Cliff(t) unlocks everything at time t, the empty schedule is invalid.
\* Late is a grant of one unit unlocked at MaxTime, written without a
\* termination policy.  As vesting schedules of a Ramp grant, Cliff(1) is
\* never behind the grant, Cliff(MaxTime + 1) is behind it from time 1 on,
\* and Over vests more than the grant holds.  The grants with a termination
\* policy are alice's, the one without is bob's.
Ramp == [j \in 1..(MaxBalance + 1) |-> Checkpoint(j - 1, j - 1)]
Cliff(t) == << Checkpoint(0, 0), Checkpoint(t, MaxBalance) >>
Over == << Checkpoint(0, 0), Checkpoint(1, MaxBalance + 1) >>
Late == << Checkpoint(0, 0), Checkpoint(MaxTime, 1) >>

TerminationInputs ==
    {Some(TerminationConfig(Payer, SameAsLockupSchedule)),
     Some(TerminationConfig("bob", VestingSchedule(Cliff(1)))),
     Some(TerminationConfig("bob", VestingSchedule(Cliff(MaxTime + 1)))),
     Some(TerminationConfig("bob", VestingSchedule(Over)))}

\* The policies the grants of a group are written with: each of them in the
\* first group, the lockup's own schedule in the others.
TerminationInputsOf(g) ==
    IF g = 0 THEN TerminationInputs
    ELSE {Some(TerminationConfig(Payer, SameAsLockupSchedule))}

DraftInputs ==
    UNION {{Draft(g, "alice", Ramp, tc) : tc \in TerminationInputsOf(g)} : g \in GroupIds}
        \cup {Draft(g, "alice", << >>, None) : g \in GroupIds}
        \cup {Draft(g, "bob", Late, None) : g \in GroupIds}

SeqsUpTo(S, n) == UNION {[1..k -> S] : k \in 1..n}

AmountInputs == {None} \cup {Some(a) : a \in 1..MaxRequest}

\* The requests of a claim: all the caller's lockups, or a list of up to
\* MaxClaimIds ids, each with no amount or each with the same amount.
ClaimInputs ==
    {None} \cup {Some([i \in ids |-> amount]) :
                    ids \in {x \in SUBSET Indices : Cardinality(x) <= MaxClaimIds},
                    amount \in AmountInputs}

\* Id sets the query lockups_by_id is asked.
QueryInputs == {0..k : k \in 0..(MaxClaimIds - 1)} \cup {{MaxClaimIds - 1}}

\* Amounts the funding entry point receives.
FundingInputs == 0..BalanceLimit

\* Callers of terminate with the deposit they attach.
TerminateCallers == {<< Payer, 1 >>, << Payer, 0 >>, << "alice", 1 >>}

\* Those of them that attach the deposit: the payer, who is on the deposit
\* whitelist from the start, and alice, who is on it or not.
Terminators == {caller \in TerminateCallers : caller[2] = 1}

\* Callers of the draft requests: the payer, and bob, who is a draft operator
\* or not.
DraftCallers == {Payer, "bob"}

TimestampInputs == {None} \cup {Some(t) : t \in Times}

\* The whitelists Contract::new is given.
DepositWhitelists == {{Payer}, {Payer, "alice"}}
DraftOperatorsWhitelists == {{}, {"bob"}}

\* Callers of the whitelist requests with the deposit they attach.
WhitelistCallers == {<< Payer, 1 >>, << "alice", 1 >>}

\* account_id and account_ids of the deposit whitelist requests.
DepositWhitelistInputs ==
    {<< Some("alice"), None >>, << Some("bob"), Some(<< Payer, "alice" >>) >>, << None, None >>}

\* account_ids of the draft operators whitelist requests.
DraftOperatorsInputs == {<< "bob" >>}

-----------------------------------------------------------------------------
(* History kept for the properties: what each lockup was created with, what *)
(* has been sent out of it, and what each draft group was funded with.      *)

LedgerEntry(draft) ==
    [total |-> draft_total_balance(draft), terminable |-> draft.termination_config /= None,
     transferred |-> 0, unvested |-> 0, terminated |-> None]

RECURSIVE LedgerConverted(_, _, _)
LedgerConverted(entries, st, draft_ids) ==
    IF draft_ids = << >> THEN entries
    ELSE LedgerConverted(Append(entries, LedgerEntry(st.drafts[Head(draft_ids)])),
                         st, Tail(draft_ids))

\* What the conversion of draft_ids adds to the record of each funded group.
RECURSIVE FundedConverted(_, _, _)
FundedConverted(funded, st, draft_ids) ==
    IF draft_ids = << >> THEN funded
    ELSE LET draft == st.drafts[Head(draft_ids)]
             g == draft.draft_group_id
         IN FundedConverted(
                [funded EXCEPT ![g].converted = @ + draft_total_balance(draft),
                               ![g].lockups = @ + 1],
                st, Tail(draft_ids))

RECURSIVE LedgerTransferred(_, _, _)
LedgerTransferred(entries, lockup_claims, sign) ==
    IF lockup_claims = << >> THEN entries
    ELSE LET c == Head(lockup_claims)
         IN LedgerTransferred(
                [entries EXCEPT ![c.index + 1].transferred = @ + sign * c.claim_amount],
                Tail(lockup_claims), sign)

RemoveAt(q, k) == [j \in 1..(Len(q) - 1) |-> IF j < k THEN q[j] ELSE q[j + 1]]

-----------------------------------------------------------------------------
(* The state machine *)

Init ==
    /\ now = 0
    /\ lockups = << >>
    /\ account_lockups = << >>
    /\ deposit_whitelist \in DepositWhitelists
    /\ draft_operators_whitelist \in DraftOperatorsWhitelists
    /\ next_draft_id = 0
    /\ drafts = << >>
    /\ next_draft_group_id = 0
    /\ draft_groups = << >>
    /\ promises = << >>
    /\ ledger = [lockups |-> << >>, funded |-> << >>]

\* What a request leaves in the contract's state.
Persist(out) ==
    LET st == Committed(State, out)
    IN /\ lockups' = st.lockups
       /\ account_lockups' = st.account_lockups
       /\ next_draft_id' = st.next_draft_id
       /\ drafts' = st.drafts
       /\ next_draft_group_id' = st.next_draft_group_id
       /\ draft_groups' = st.draft_groups

\* What a whitelist request leaves in the two whitelists: a panic discards
\* what it wrote.
PersistWhitelists(out) ==
    /\ deposit_whitelist' = IF out.res = "ok" THEN out.deposit_whitelist
                             ELSE deposit_whitelist
    /\ draft_operators_whitelist' = IF out.res = "ok" THEN out.draft_operators_whitelist
                                     ELSE draft_operators_whitelist

Issues(out) == out.res = "ok" /\ out.transfer /= NoTransfer

Tick ==
    /\ now < MaxTime
    /\ now' = now + 1
    /\ UNCHANGED << lockups, account_lockups, deposit_whitelist, draft_operators_whitelist,
                    next_draft_id, drafts, next_draft_group_id, draft_groups, promises,
                    ledger >>

Claim(account_id, amounts, order) ==
    LET out == claim(State, account_id, amounts, now, order)
    IN /\ Issues(out) => Len(promises) < MaxPromises
       /\ Persist(out)
       /\ promises' = IF Issues(out)
                      THEN Append(promises, out.transfer[1])
                      ELSE promises
       /\ ledger' = IF Issues(out)
                    THEN [ledger EXCEPT !.lockups =
                             LedgerTransferred(@, out.transfer[1].lockup_claims, 1)]
                    ELSE ledger
       /\ UNCHANGED << now, deposit_whitelist, draft_operators_whitelist >>

Terminate(account_id, deposit, lockup_index, termination_timestamp) ==
    LET out == terminate(State, account_id, deposit, lockup_index, termination_timestamp, now)
        ts == IF termination_timestamp = None THEN now ELSE termination_timestamp[1]
    IN /\ Issues(out) => Len(promises) < MaxPromises
       /\ Persist(out)
       /\ promises' = IF out.res /= "ok" THEN promises
                      ELSE IF Issues(out)
                      THEN Append(promises, out.transfer[1])
                      ELSE promises
       /\ ledger' = IF out.res /= "ok" THEN ledger
                    ELSE LET unvested == IF Issues(out) THEN out.transfer[1].amount ELSE 0
                             before == LockupAt(State, lockup_index).schedule
                         IN [ledger EXCEPT
                                !.lockups[lockup_index + 1].unvested = unvested,
                                !.lockups[lockup_index + 1].terminated =
                                    Some([timestamp |-> ts,
                                          vested |-> total_balance(before) - unvested,
                                          schedule |-> before])]
       /\ UNCHANGED << now, deposit_whitelist, draft_operators_whitelist >>

\* A query reads the state and leaves it as it is, whatever it returns.
LockupsById(account_id, lockup_ids, order) ==
    /\ lockups_by_id(State, account_id, lockup_ids, order).res \in {"ok", "NotFound", "Invariant"}
    /\ UNCHANGED vars

AddToDepositWhitelist(caller, deposit, account_id, account_ids) ==
    /\ PersistWhitelists(add_to_deposit_whitelist(caller, deposit, account_id, account_ids))
    /\ UNCHANGED << now, lockups, account_lockups, next_draft_id, drafts, next_draft_group_id,
                    draft_groups, promises, ledger >>

RemoveFromDepositWhitelist(caller, deposit, account_id, account_ids) ==
    /\ PersistWhitelists(
           remove_from_deposit_whitelist(caller, deposit, account_id, account_ids))
    /\ UNCHANGED << now, lockups, account_lockups, next_draft_id, drafts, next_draft_group_id,
                    draft_groups, promises, ledger >>

AddToDraftOperatorsWhitelist(caller, deposit, account_ids) ==
    /\ PersistWhitelists(add_to_draft_operators_whitelist(caller, deposit, account_ids))
    /\ UNCHANGED << now, lockups, account_lockups, next_draft_id, drafts, next_draft_group_id,
                    draft_groups, promises, ledger >>

RemoveFromDraftOperatorsWhitelist(caller, deposit, account_ids) ==
    /\ PersistWhitelists(remove_from_draft_operators_whitelist(caller, deposit, account_ids))
    /\ UNCHANGED << now, lockups, account_lockups, next_draft_id, drafts, next_draft_group_id,
                    draft_groups, promises, ledger >>

AfterFtTransfer(k, promise_success) ==
    /\ k \in 1..Len(promises)
    /\ promises[k].kind = "claim"
    /\ LET out == after_ft_transfer(State, promises[k].lockup_claims, promise_success)
       IN /\ Persist(out)
          /\ promises' = RemoveAt(promises, k)
          /\ ledger' = IF promise_success THEN ledger
                       ELSE [ledger EXCEPT !.lockups =
                                LedgerTransferred(@, promises[k].lockup_claims, -1)]
    /\ UNCHANGED << now, deposit_whitelist, draft_operators_whitelist >>

AfterLockupTermination(k, promise_success) ==
    /\ k \in 1..Len(promises)
    /\ promises[k].kind = "terminate"
    /\ LET out == after_lockup_termination(State, promises[k].receiver_id,
                                           promises[k].amount, promise_success)
       IN /\ Persist(out)
    /\ promises' = RemoveAt(promises, k)
    /\ UNCHANGED << now, deposit_whitelist, draft_operators_whitelist, ledger >>

CreateDraftGroup(account_id) ==
    /\ next_draft_group_id < MaxGroups
    /\ LET out == create_draft_group(State, account_id)
       IN /\ Persist(out)
    /\ UNCHANGED << now, deposit_whitelist, draft_operators_whitelist, promises, ledger >>

CreateDrafts(account_id, batch) ==
    /\ next_draft_id + Len(batch) <= MaxDrafts
    /\ LET out == create_drafts(State, account_id, batch)
       IN /\ Persist(out)
    /\ UNCHANGED << now, deposit_whitelist, draft_operators_whitelist, promises, ledger >>

DiscardDraftGroup(account_id, draft_group_id) ==
    /\ LET out == discard_draft_group(State, account_id, draft_group_id)
       IN /\ Persist(out)
    /\ UNCHANGED << now, deposit_whitelist, draft_operators_whitelist, promises, ledger >>

DeleteDrafts(draft_ids) ==
    /\ LET out == delete_drafts(State, draft_ids)
       IN /\ Persist(out)
    /\ UNCHANGED << now, deposit_whitelist, draft_operators_whitelist, promises, ledger >>

ConvertDraft(draft_id) ==
    /\ LET out == convert_draft(State, draft_id)
       IN /\ Persist(out)
          /\ ledger' = IF out.res = "ok"
                       THEN [lockups |-> LedgerConverted(ledger.lockups, State, << draft_id >>),
                             funded |-> FundedConverted(ledger.funded, State, << draft_id >>)]
                       ELSE ledger
    /\ UNCHANGED << now, deposit_whitelist, draft_operators_whitelist, promises >>

FundDraftGroup(draft_group_id, funded_amount) ==
    /\ LET out == fund_draft_group(State, draft_group_id, funded_amount)
       IN /\ Persist(out)
          /\ ledger' = IF out.res /= "ok" THEN ledger
                       ELSE LET members ==
                                    SetToSeq(State.draft_groups[draft_group_id].draft_indices)
                                opened == MapPut(ledger.funded, draft_group_id,
                                                 [amount |-> funded_amount,
                                                  drafts |-> Len(members),
                                                  converted |-> 0, lockups |-> 0])
                            IN [lockups |-> LedgerConverted(ledger.lockups, State, members),
                                funded |-> FundedConverted(opened, State, members)]
    /\ UNCHANGED << now, deposit_whitelist, draft_operators_whitelist, promises >>

Next ==
    \/ Tick
    \/ \E account_id \in Owners, amounts \in ClaimInputs :
          \E order \in IterationOrders(ClaimIds(State, account_id, amounts)) :
              Claim(account_id, amounts, order)
    \/ \E account_id \in Owners, lockup_ids \in QueryInputs :
          \E order \in IterationOrders(lockup_ids) :
              LockupsById(account_id, lockup_ids, order)
    \/ \E caller \in WhitelistCallers, named \in DepositWhitelistInputs :
            AddToDepositWhitelist(caller[1], caller[2], named[1], named[2])
    \/ \E caller \in WhitelistCallers, named \in DepositWhitelistInputs :
            RemoveFromDepositWhitelist(caller[1], caller[2], named[1], named[2])
    \/ \E caller \in WhitelistCallers, account_ids \in DraftOperatorsInputs :
            AddToDraftOperatorsWhitelist(caller[1], caller[2], account_ids)
    \/ \E caller \in WhitelistCallers, account_ids \in DraftOperatorsInputs :
            RemoveFromDraftOperatorsWhitelist(caller[1], caller[2], account_ids)
    \/ \E caller \in Terminators, lockup_index \in Indices,
          termination_timestamp \in TimestampInputs :
            Terminate(caller[1], caller[2], lockup_index, termination_timestamp)
    \/ \E k \in 1..MaxPromises, promise_success \in BOOLEAN : AfterFtTransfer(k, promise_success)
    \/ \E k \in 1..MaxPromises, promise_success \in BOOLEAN :
            AfterLockupTermination(k, promise_success)
    \/ \E account_id \in DraftCallers : CreateDraftGroup(account_id)
    \/ \E account_id \in DraftCallers, batch \in SeqsUpTo(DraftInputs, MaxBatch) :
            CreateDrafts(account_id, batch)
    \/ \E account_id \in DraftCallers, draft_group_id \in GroupIds :
            DiscardDraftGroup(account_id, draft_group_id)
    \/ \E draft_ids \in SeqsUpTo(Indices, MaxBatch) : DeleteDrafts(draft_ids)
    \/ \E draft_id \in Indices : ConvertDraft(draft_id)
    \/ \E draft_group_id \in GroupIds, funded_amount \in FundingInputs :
            FundDraftGroup(draft_group_id, funded_amount)

Spec == Init /\ [][Next]_vars

-----------------------------------------------------------------------------
(* Properties *)

LockupIds == {i \in Indices : HasLockup(State, i)}

\* What a claim request may return at this state: one outcome for each order
\* its ids may be iterated in.
ClaimOutcomes(account_id, amounts) ==
    {claim(State, account_id, amounts, now, order) :
        order \in IterationOrders(ClaimIds(State, account_id, amounts))}

\* The claim of one lockup, with the amount given or defaulted.
ClaimOne(account_id, i, amount) ==
    claim(State, account_id, Some([x \in {i} |-> amount]), now, << i >>)

\* The callers the deposit whitelist lets through, with the deposit attached.
DepositCallers == {<< a, 1 >> : a \in deposit_whitelist}

\* C1: every stored lockup has claimed_balance <= unlocked_balance(now) of
\* its schedule, whatever claims, terminations and transfer callbacks ran.
C1_ClaimedWithinUnlocked ==
    \A i \in 1..Len(lockups) :
        lockups[i].claimed_balance <= unlocked_balance(lockups[i].schedule, now)

\* C2: for every lockup, the claim amounts whose transfer succeeded or is in
\* flight plus the unvested amount sent at its termination never exceed the
\* total_balance it was added to the store with.
C2_NoValueCreated ==
    \A i \in 1..Len(lockups) :
        ledger.lockups[i].transferred + ledger.lockups[i].unvested <= ledger.lockups[i].total

ClaimedAt(st, i) == LockupAt(st, i).claimed_balance

RECURSIVE AmountFor(_, _)
AmountFor(lockup_claims, i) ==
    IF lockup_claims = << >> THEN 0
    ELSE (IF Head(lockup_claims).index = i THEN Head(lockup_claims).claim_amount ELSE 0)
             + AmountFor(Tail(lockup_claims), i)

\* C3: a claim records exactly the lockups it raised, each with its
\* increment; when its transfer fails right after the claim, the callback
\* brings the state back to the one before the claim, and when it succeeds
\* the state stays as the claim left it.  The failure callback of any promise
\* in flight lowers each recorded lockup by its recorded amount and no other.
C3_RollbackRestores ==
    /\ \A account_id \in Owners, amounts \in ClaimInputs :
          \A out \in ClaimOutcomes(account_id, amounts) :
             Issues(out) =>
                LET recorded == out.transfer[1].lockup_claims
                    failure == after_ft_transfer(out.st, recorded, FALSE)
                    success == after_ft_transfer(out.st, recorded, TRUE)
                IN /\ {recorded[j].index : j \in 1..Len(recorded)}
                         = {i \in LockupIds : ClaimedAt(out.st, i) /= ClaimedAt(State, i)}
                   /\ \A i \in LockupIds :
                         ClaimedAt(out.st, i) = ClaimedAt(State, i) + AmountFor(recorded, i)
                   /\ failure.res = "ok" /\ failure.st = State
                   /\ success.res = "ok" /\ success.st = out.st
    /\ \A k \in 1..Len(promises) :
          promises[k].kind = "claim" =>
              LET failure == after_ft_transfer(State, promises[k].lockup_claims, FALSE)
              IN failure.res = "ok" =>
                    \A i \in LockupIds :
                        LockupAt(failure.st, i) =
                            [LockupAt(State, i) EXCEPT
                                !.claimed_balance = @ - AmountFor(promises[k].lockup_claims, i)]

\* The transfer of a claim over two lockups is in flight.
C3_Witness ==
    \E k \in 1..Len(promises) :
        /\ promises[k].kind = "claim"
        /\ Len(promises[k].lockup_claims) >= 2
        /\ after_ft_transfer(State, promises[k].lockup_claims, FALSE).st /= State

TerminateOutcome(caller, lockup_index, termination_timestamp) ==
    terminate(State, caller[1], caller[2], lockup_index, termination_timestamp, now)

\* C4, as first stated: every terminate call of a whitelisted caller on a
\* lockup whose termination_config is empty fails with AlreadyTerminated.
C4_AlwaysAlreadyTerminated ==
    \A caller \in DepositCallers, lockup_index \in LockupIds,
       termination_timestamp \in TimestampInputs :
        LockupAt(State, lockup_index).termination_config = None =>
            TerminateOutcome(caller, lockup_index, termination_timestamp).res
                = "AlreadyTerminated"

\* C4, amended: terminate succeeds only on a lockup with a termination_config
\* and leaves it empty; only a lockup created with a config and not yet
\* terminated has one; every terminate call on a lockup without config fails,
\* changes no state and issues no transfer, and it fails with
\* AlreadyTerminated when the caller is whitelisted, the deposit attached and
\* the timestamp not in the past: those are checked first.
C4_TerminateOnce ==
    /\ \A i \in 1..Len(lockups) :
          lockups[i].termination_config /= None =>
              ledger.lockups[i].terminable /\ ledger.lockups[i].terminated = None
    /\ \A caller \in TerminateCallers, lockup_index \in LockupIds,
          termination_timestamp \in TimestampInputs :
          LET out == TerminateOutcome(caller, lockup_index, termination_timestamp)
              config == LockupAt(State, lockup_index).termination_config
          IN /\ out.res = "ok" =>
                   config /= None /\ LockupAt(out.st, lockup_index).termination_config = None
             /\ config = None =>
                   /\ out.res /= "ok"
                   /\ Committed(State, out) = State
                   /\ ~Issues(out)
                   /\ (/\ caller \in DepositCallers
                       /\ (termination_timestamp = None \/ termination_timestamp[1] >= now))
                          => out.res = "AlreadyTerminated"

\* One lockup has been terminated, another was created without a config.
C4_Witness ==
    /\ \E i \in 1..Len(lockups) :
          ledger.lockups[i].terminated /= None /\ lockups[i].termination_config = None
    /\ \E i \in 1..Len(lockups) : ~ledger.lockups[i].terminable
    /\ now > 0

GroupSum(draft_group) ==
    SumOver(draft_group.draft_indices,
            [d \in draft_group.draft_indices |-> draft_total_balance(drafts[d])])

\* C5: every stored draft group has total_amount equal to the sum of
\* total_balance over the drafts of its draft set.
C5_GroupTotal ==
    \A g \in DOMAIN draft_groups :
        /\ draft_groups[g].draft_indices \subseteq DOMAIN drafts
        /\ draft_groups[g].total_amount = GroupSum(draft_groups[g])

\* Two groups hold drafts, one of them two, the other being discarded.
C5_Witness ==
    \/ \E g \in DOMAIN draft_groups :
          /\ Cardinality(draft_groups[g].draft_indices) >= 2
          /\ draft_groups[g].total_amount = BalanceLimit
    \/ \E g \in DOMAIN draft_groups :
          /\ draft_groups[g].state = "Discarded"
          /\ Cardinality(draft_groups[g].draft_indices) = 1
          /\ next_draft_id = MaxDrafts
          /\ Cardinality(DOMAIN drafts) = 1
          /\ lockups = << >>


Errors ==
    {"NotFound", "Unauthorized", "InvalidState", "InvalidTimestamp", "Overflow",
     "AlreadyTerminated", "InvalidDraft", "InvalidAmount"}

\* A request that does not succeed has panicked with one of the errors, and
\* issues no transfer.
Refused(out) == out.res /= "ok" => (out.res \in Errors /\ out.transfer = NoTransfer)

\* A request that does not succeed has written nothing when it panics.
RefusedUnwritten(out) == out.res /= "ok" => out.st = State

\* What C6 says of the requests at a state.  Every request that fails has
\* panicked with an error and issues no transfer.  claim looks every id up
\* before it writes a lockup, terminate, create_draft_group, discard_draft_group
\* and the checks of funding come before any write: those leave the state
\* untouched.  A batch of create_drafts or delete_drafts that fails at a later
\* element, a conversion that fails, and a claim whose total overflows have
\* written before they panic, and the panic discards the writes of the call:
\* NothingKeptOfFailedRequests looks for them in the states reached.
FailedRequestsChangeNothing ==
    /\ \A account_id \in Owners, amounts \in ClaimInputs :
          \A out \in ClaimOutcomes(account_id, amounts) :
             /\ Refused(out)
             /\ out.res \in {"ok", "NotFound", "Overflow"}
             /\ out.res = "NotFound" => out.st = State
             /\ (amounts /= None /\ ~(DOMAIN amounts[1] \subseteq IndicesOf(State, account_id)))
                    => out.res = "NotFound"
    /\ \A caller \in TerminateCallers, lockup_index \in Indices,
          termination_timestamp \in TimestampInputs :
          LET out == TerminateOutcome(caller, lockup_index, termination_timestamp)
          IN Refused(out) /\ RefusedUnwritten(out)
    /\ \A account_id \in Accounts :
          LET out == create_draft_group(State, account_id)
          IN Refused(out) /\ RefusedUnwritten(out)
    /\ \A account_id \in Accounts, draft_group_id \in GroupIds :
          LET out == discard_draft_group(State, account_id, draft_group_id)
          IN Refused(out) /\ RefusedUnwritten(out)
    /\ \A account_id \in Accounts, batch \in SeqsUpTo(DraftInputs, MaxBatch) :
          next_draft_id + Len(batch) <= MaxDrafts =>
              LET out == create_drafts(State, account_id, batch)
              IN /\ Refused(out)
                 /\ (Len(batch) = 1 /\ out.res \in {"Unauthorized", "NotFound", "InvalidState",
                                                     "InvalidDraft"})
                        => out.st = State
    /\ \A draft_ids \in SeqsUpTo(Indices, MaxBatch) :
          LET out == delete_drafts(State, draft_ids)
          IN /\ Refused(out)
             /\ (out.res = "NotFound" /\ Len(draft_ids) = 1) => out.st = State
    /\ \A draft_id \in Indices :
          LET out == convert_draft(State, draft_id)
          IN Refused(out)
    /\ \A draft_group_id \in GroupIds, funded_amount \in FundingInputs :
          LET out == fund_draft_group(State, draft_group_id, funded_amount)
          IN /\ Refused(out)
             /\ out.res \in {"NotFound", "InvalidState", "InvalidAmount"} => out.st = State

\* What C6 says of the states reached: none shows what a request that failed
\* had written.  A draft stored by a batch that failed later would be in no
\* group, a draft removed by one would still be in its group, and a lockup
\* raised by a claim that failed would be claimed beyond what was transferred.
NothingKeptOfFailedRequests ==
    /\ \A d \in DOMAIN drafts :
          /\ drafts[d].draft_group_id \in DOMAIN draft_groups
          /\ d \in draft_groups[drafts[d].draft_group_id].draft_indices
    /\ \A g \in DOMAIN draft_groups : draft_groups[g].draft_indices \subseteq DOMAIN drafts
    /\ Cardinality(DOMAIN drafts) + Len(lockups) <= next_draft_id
    /\ \A i \in 1..Len(lockups) : lockups[i].claimed_balance = ledger.lockups[i].transferred

\* C6: a request that fails leaves the persisted state as it was before the
\* request and issues no transfer; a create_drafts or delete_drafts batch
\* that fails at its k-th element keeps nothing of the elements before it,
\* and a claim naming an id the caller does not own fails with NotFound
\* before any lockup is written.
C6_FailureIsAtomic ==
    /\ FailedRequestsChangeNothing
    /\ NothingKeptOfFailedRequests

\* An owner has a lockup with something to claim and names it in a claim
\* together with an id that is not theirs: the claim is refused whole.  A
\* delete_drafts batch has removed a first draft when it fails at the second.
C6_Witness ==
    /\ \E account_id \in Owners :
          \E i \in IndicesOf(State, account_id), j \in Indices :
              /\ j \notin IndicesOf(State, account_id)
              /\ \A out \in ClaimOutcomes(account_id, Some([x \in {i, j} |-> None])) :
                    out.res = "NotFound"
              /\ ClaimOne(account_id, i, None).transfer /= NoTransfer
    /\ \E draft_ids \in SeqsUpTo(Indices, MaxBatch) :
          LET out == delete_drafts(State, draft_ids)
          IN out.res = "NotFound" /\ out.st /= State

\* The lockups a funding request appended to the store.
Appended(out) == (Len(lockups) + 1)..Len(out.st.lockups)

\* What C7 says of one funding request at a state.  It is accepted only for
\* a stored Pending group and with funded_amount = total_amount, the sum over
\* the drafts of the group; it converts every draft of the group in the same
\* call: the drafts leave the store, one lockup per draft is appended, with
\* the draft's owner, schedule and policy, nothing claimed, and its index in
\* the owner's index set; the total_balance of the appended lockups sums to
\* funded_amount; the lockups stored before are as they were.  The group
\* left with no draft is removed, a group funded empty is stored as Funded.
\* A funding that is refused changes nothing.
FundingConvertsWholeGroup ==
    \A g \in GroupIds, funded_amount \in FundingInputs :
        LET out == fund_draft_group(State, g, funded_amount)
        IN IF out.res /= "ok"
           THEN out.res \in {"NotFound", "InvalidState", "InvalidAmount"} /\ out.st = State
           ELSE LET draft_group == draft_groups[g]
                    members == SetToSeq(draft_group.draft_indices)
                IN /\ g \in DOMAIN draft_groups
                   /\ draft_group.state = "Pending"
                   /\ funded_amount = draft_group.total_amount
                   /\ funded_amount = GroupSum(draft_group)
                   /\ Len(out.st.lockups) = Len(lockups) + Len(members)
                   /\ SumOver(Appended(out),
                              [i \in Appended(out) |-> total_balance(out.st.lockups[i].schedule)])
                          = funded_amount
                   /\ \A j \in 1..Len(members) :
                         /\ out.st.lockups[Len(lockups) + j]
                                = draft_into_lockup(drafts[members[j]])
                         /\ members[j] \notin DOMAIN out.st.drafts
                         /\ Len(lockups) + j - 1
                                \in IndicesOf(out.st, drafts[members[j]].account_id)
                   /\ \A j \in 1..Len(lockups) : out.st.lockups[j] = lockups[j]
                   /\ DOMAIN out.st.drafts = (DOMAIN drafts) \ draft_group.draft_indices
                   /\ IF members = << >>
                      THEN g \in DOMAIN out.st.draft_groups
                              /\ out.st.draft_groups[g].state = "Funded"
                      ELSE g \notin DOMAIN out.st.draft_groups

\* What C7 says of the states reached: each funded group has had every draft
\* it was funded with converted, to lockups summing to the funded amount; no
\* group that is stored as Funded holds a draft; every lockup of the store
\* comes from the conversion of a funded group; and convert_draft finds no
\* draft of a group that is Funded: no part of a group is converted alone.
ConvertedWholeGroupsOnly ==
    /\ \A g \in DOMAIN ledger.funded :
          /\ ledger.funded[g].converted = ledger.funded[g].amount
          /\ ledger.funded[g].lockups = ledger.funded[g].drafts
          /\ g \in DOMAIN draft_groups =>
                draft_groups[g].state = "Funded" /\ ledger.funded[g].drafts = 0
    /\ \A g \in DOMAIN draft_groups :
          draft_groups[g].state = "Funded" =>
              g \in DOMAIN ledger.funded /\ draft_groups[g].draft_indices = {}
    /\ Len(ledger.lockups) = Len(lockups)
    /\ SumOver(DOMAIN ledger.funded, [g \in DOMAIN ledger.funded |-> ledger.funded[g].amount])
           = SumOver(1..Len(lockups), [i \in 1..Len(lockups) |-> ledger.lockups[i].total])
    /\ SumOver(DOMAIN ledger.funded, [g \in DOMAIN ledger.funded |-> ledger.funded[g].drafts])
           = Len(lockups)
    /\ \A draft_id \in Indices : convert_draft(State, draft_id).res /= "ok"

\* C7: a group created by create_draft_group and filled by create_drafts is
\* funded only with funded_amount = total_amount, the sum over its drafts,
\* while Pending; it is then Funded and all its drafts are converted in the
\* same call, which appends one lockup per draft, their total_balance summing
\* to the funded amount; conversion is all-or-nothing per group.
C7_RoundTrip ==
    /\ FundingConvertsWholeGroup
    /\ ConvertedWholeGroupsOnly

\* A group of two drafts, funded with the limit, has been converted whole,
\* and other amounts were refused.
C7_Witness ==
    \E g \in DOMAIN ledger.funded :
        /\ g \notin DOMAIN draft_groups
        /\ ledger.funded[g].drafts = 2
        /\ ledger.funded[g].lockups = 2
        /\ Len(lockups) = 2
        /\ ledger.funded[g].amount = BalanceLimit
        /\ total_balance(lockups[1].schedule) + total_balance(lockups[2].schedule)
               = BalanceLimit

\* C8: a terminate of a whitelisted caller with a timestamp before now fails
\* with InvalidTimestamp, whatever the lockup, and changes nothing; with no
\* timestamp it does what it does with the timestamp now, and on a lockup
\* with a config it succeeds with the balance vested at now, or fails on the
\* subtraction when that balance exceeds the total.
C8_BackDatedRefused ==
    \A caller \in DepositCallers, lockup_index \in LockupIds :
        /\ \A t \in Times :
              t < now =>
                  LET out == TerminateOutcome(caller, lockup_index, Some(t))
                  IN /\ out.res = "InvalidTimestamp"
                     /\ out.st = State
                     /\ out.transfer = NoTransfer
        /\ TerminateOutcome(caller, lockup_index, None)
               = TerminateOutcome(caller, lockup_index, Some(now))
        /\ LET lockup == LockupAt(State, lockup_index)
               out == TerminateOutcome(caller, lockup_index, None)
               vested == vested_balance_at(lockup, lockup.termination_config[1], now)
           IN lockup.termination_config /= None =>
                 IF vested <= total_balance(lockup.schedule)
                 THEN /\ out.res = "ok"
                      /\ total_balance(LockupAt(out.st, lockup_index).schedule) = vested
                 ELSE out.res = "Overflow" /\ out.st = State

\* Time has passed, a lockup has a config and another has been terminated:
\* a back-dated terminate of either is refused.
C8_Witness ==
    /\ now > 0
    /\ \E i, j \in LockupIds :
          /\ LockupAt(State, i).termination_config /= None
          /\ LockupAt(State, i).claimed_balance > 0
          /\ ledger.lockups[j + 1].terminated /= None
          /\ TerminateOutcome(<< Payer, 1 >>, i, Some(0)).res = "InvalidTimestamp"
          /\ TerminateOutcome(<< Payer, 1 >>, j, Some(0)).res = "InvalidTimestamp"

\* C9: a successful terminate takes as vested the balance unlocked at the
\* termination time by the lockup's schedule (SameAsLockupSchedule) or by
\* the vesting schedule of the config, and as unvested the total less the
\* vested; unvested lies between 0 and the total; one transfer of unvested
\* to the beneficiary is issued if it is positive, none if it is zero; and
\* no terminate fails on the subtraction.
C9_UnvestedTransfer ==
    \A caller \in TerminateCallers, lockup_index \in LockupIds,
       termination_timestamp \in TimestampInputs :
        LET out == TerminateOutcome(caller, lockup_index, termination_timestamp)
            lockup == LockupAt(State, lockup_index)
            ts == IF termination_timestamp = None THEN now ELSE termination_timestamp[1]
        IN /\ out.res /= "Overflow"
           /\ out.res = "ok" =>
                 LET config == lockup.termination_config[1]
                     total == total_balance(lockup.schedule)
                     vested == IF config.vesting_schedule = SameAsLockupSchedule
                               THEN unlocked_balance(lockup.schedule, ts)
                               ELSE unlocked_balance(config.vesting_schedule.schedule, ts)
                     unvested == total - vested
                 IN /\ 0 <= unvested /\ unvested <= total
                    /\ unvested > 0 =>
                          out.transfer = Some([kind |-> "terminate",
                                               receiver_id |-> config.beneficiary_id,
                                               amount |-> unvested,
                                               lockup_claims |-> << >>])
                    /\ unvested = 0 => out.transfer = NoTransfer
                    /\ total_balance(LockupAt(out.st, lockup_index).schedule) = vested

Horizon == 0..(MaxTime + 1)

\* C10, as first stated: after a terminate at termination_time with vested
\* amount v the schedule unlocks v at every time from termination_time on,
\* and what it unlocked before at every earlier time.
C10_CappedFromTermination ==
    \A i \in 1..Len(lockups) :
        ledger.lockups[i].terminated /= None =>
            LET done == ledger.lockups[i].terminated[1]
            IN \A t \in Horizon :
                  IF t >= done.timestamp
                  THEN unlocked_balance(lockups[i].schedule, t) = done.vested
                  ELSE unlocked_balance(lockups[i].schedule, t)
                           = unlocked_balance(done.schedule, t)

\* C10, amended: after a terminate with vested amount v, total_balance() is v
\* and the schedule unlocks before termination_time what it unlocked before;
\* if something was unvested it unlocks v at every time from termination_time
\* on; if nothing was unvested the schedule is the one before the terminate.
C10_TerminatedSchedule ==
    \A i \in 1..Len(lockups) :
        ledger.lockups[i].terminated /= None =>
            LET done == ledger.lockups[i].terminated[1]
            IN /\ total_balance(lockups[i].schedule) = done.vested
               /\ \A t \in Horizon :
                     t < done.timestamp =>
                         unlocked_balance(lockups[i].schedule, t)
                             = unlocked_balance(done.schedule, t)
               /\ ledger.lockups[i].unvested > 0 =>
                     \A t \in Horizon :
                         t >= done.timestamp =>
                             unlocked_balance(lockups[i].schedule, t) = done.vested
               /\ ledger.lockups[i].unvested = 0 => lockups[i].schedule = done.schedule

\* A lockup terminated at time 0 with SameAsLockupSchedule before anything
\* unlocked: all of it was unvested, and at MaxTime it still unlocks 0.
C10_Witness ==
    \E i \in 1..Len(lockups) :
        /\ ledger.lockups[i].terminated /= None
        /\ ledger.lockups[i].terminated[1].timestamp = 0
        /\ ledger.lockups[i].terminated[1].vested = 0
        /\ ledger.lockups[i].unvested = ledger.lockups[i].total
        /\ ledger.lockups[i].total = MaxBalance
        /\ now = MaxTime
        /\ unlocked_balance(lockups[i].schedule, MaxTime) = 0


\* C11: a claim or a lockups_by_id query naming an id that is not in the
\* caller's index set fails with NotFound, in whatever order the ids are
\* visited and also when the id is a stored lockup of another account; a
\* query that returns gives lockups of the account only; and a claim that
\* succeeds raises claimed_balance of, and pays from, lockups of the caller's
\* index set only.
C11_ForeignIdRefused ==
    /\ \A account_id \in Owners, lockup_ids \in QueryInputs :
          \A order \in IterationOrders(lockup_ids) :
             LET out == lockups_by_id(State, account_id, lockup_ids, order)
             IN IF lockup_ids \subseteq IndicesOf(State, account_id)
                THEN /\ out.res = "ok"
                     /\ DOMAIN out.lockups = lockup_ids
                     /\ \A i \in lockup_ids :
                           out.lockups[i] = LockupAt(State, i)
                               /\ out.lockups[i].account_id = account_id
                ELSE out.res = "NotFound"
    /\ \A account_id \in Owners, amounts \in ClaimInputs :
        \A out \in ClaimOutcomes(account_id, amounts) :
          LET own == IndicesOf(State, account_id)
          IN /\ (amounts /= None /\ \E i \in DOMAIN amounts[1] : i \notin own)
                    => /\ out.res = "NotFound"
                       /\ out.st = State
                       /\ out.transfer = NoTransfer
             /\ out.res = "ok" =>
                   /\ \A i \in LockupIds :
                         LockupAt(out.st, i) /= LockupAt(State, i) => i \in own
                   /\ out.transfer /= NoTransfer =>
                         /\ out.transfer[1].receiver_id = account_id
                         /\ \A j \in 1..Len(out.transfer[1].lockup_claims) :
                               out.transfer[1].lockup_claims[j].index \in own

\* bob has a lockup with something to claim, alice has another, and alice
\* names both: her claim and her query are refused in either order, though
\* each owner alone would be paid.
C11_Witness ==
    \E i \in IndicesOf(State, "alice"), j \in IndicesOf(State, "bob") :
        /\ ClaimOne("alice", j, None).res = "NotFound"
        /\ \A out \in ClaimOutcomes("alice", Some([x \in {i, j} |-> None])) :
              out.res = "NotFound"
        /\ \A order \in IterationOrders({i, j}) :
              lockups_by_id(State, "alice", {i, j}, order).res = "NotFound"
        /\ lockups_by_id(State, "alice", {i}, << i >>).res = "ok"
        /\ ClaimOne("bob", j, None).transfer /= NoTransfer
        /\ ClaimOne("alice", i, None).transfer /= NoTransfer

\* The lockups terminate has pruned from the index: terminated and left with
\* a total_balance of 0.
DrainedByTermination(i) ==
    /\ ledger.lockups[i + 1].terminated /= None
    /\ total_balance(LockupAt(State, i).schedule) = 0

\* C12, as first stated: i is in account_lockups[a] if and only if lockup i
\* is stored with owner a, and no account is mapped to an empty set.
C12_IndexIsOwnership ==
    /\ \A a \in Accounts, i \in Indices :
          i \in IndicesOf(State, a) <=>
              (HasLockup(State, i) /\ LockupAt(State, i).account_id = a)
    /\ \A a \in DOMAIN account_lockups : account_lockups[a] /= {}

\* C12, amended: i is in account_lockups[a] if and only if lockup i is stored
\* with owner a and has not been left with a total_balance of 0 by its
\* termination; and no account is mapped to an empty set.
C12_IndexIsLiveOwnership ==
    /\ \A a \in Accounts, i \in Indices :
          i \in IndicesOf(State, a) <=>
              /\ HasLockup(State, i)
              /\ LockupAt(State, i).account_id = a
              /\ ~DrainedByTermination(i)
    /\ \A a \in DOMAIN account_lockups : account_lockups[a] /= {}

\* An account owns two stored lockups, one of them terminated with nothing
\* vested and pruned from the index, the other still in it.
C12_Witness ==
    \E a \in Owners, i, j \in LockupIds :
        /\ i /= j
        /\ LockupAt(State, i).account_id = a
        /\ LockupAt(State, j).account_id = a
        /\ DrainedByTermination(i)
        /\ account_lockups[a] = {j}


\* The state of the group a stored draft belongs to.
GroupStateOf(draft_id) == draft_groups[drafts[draft_id].draft_group_id].state

Distinct(q) == \A j, k \in 1..Len(q) : j /= k => q[j] /= q[k]

\* C13: delete_drafts naming a stored draft whose group is Pending or Funded
\* fails, with InvalidState when that is the first thing wrong with the
\* batch, and removes nothing: drafts and groups are as before; a
\* delete_drafts that succeeds has named drafts of Discarded groups only.
C13_DeleteNeedsDiscarded ==
    \A draft_ids \in SeqsUpTo(Indices, MaxBatch) :
        LET out == delete_drafts(State, draft_ids)
            stored == \A j \in 1..Len(draft_ids) : draft_ids[j] \in DOMAIN drafts
        IN /\ out.res = "ok" =>
                 /\ stored
                 /\ \A j \in 1..Len(draft_ids) : GroupStateOf(draft_ids[j]) = "Discarded"
           /\ (\E j \in 1..Len(draft_ids) :
                  /\ draft_ids[j] \in DOMAIN drafts
                  /\ GroupStateOf(draft_ids[j]) \in {"Pending", "Funded"})
                 => /\ out.res /= "ok"
                    /\ Committed(State, out) = State
                    /\ out.transfer = NoTransfer
                    /\ (stored /\ Distinct(draft_ids)) => out.res = "InvalidState"

\* A draft of a Discarded group and a draft of a Pending group are stored:
\* the first alone is deleted, the second alone is refused, and the batch of
\* both is refused after the first has been removed.
C13_Witness ==
    \E d, e \in DOMAIN drafts :
        /\ GroupStateOf(d) = "Discarded"
        /\ GroupStateOf(e) = "Pending"
        /\ delete_drafts(State, << d >>).res = "ok"
        /\ delete_drafts(State, << e >>).res = "InvalidState"
        /\ delete_drafts(State, << d, e >>).res = "InvalidState"
        /\ delete_drafts(State, << d, e >>).st /= State

\* Whether a draft of the batch targets a group that takes no drafts.
TargetsClosedGroup(draft) ==
    \/ draft.draft_group_id \notin DOMAIN draft_groups
    \/ draft_groups[draft.draft_group_id].state /= "Pending"

\* What C14 says of one create_drafts request: with a draft that targets a
\* Funded, Discarded or absent group it fails, and no draft and no group is
\* changed; InvalidState or NotFound when the first draft is the one.
CreateRefusedForClosedGroup ==
    \A account_id \in Accounts, batch \in SeqsUpTo(DraftInputs, MaxBatch) :
        (/\ next_draft_id + Len(batch) <= MaxDrafts
         /\ \E j \in 1..Len(batch) : TargetsClosedGroup(batch[j]))
            => LET out == create_drafts(State, account_id, batch)
               IN /\ out.res /= "ok"
                  /\ Committed(State, out) = State
                  /\ (assert_draft_operators_whitelist(account_id)
                         /\ TargetsClosedGroup(batch[1]))
                        => out.res = IF batch[1].draft_group_id \in DOMAIN draft_groups
                                     THEN "InvalidState" ELSE "NotFound"

\* What C14 says of a step: the draft set and total_amount of a group grow
\* only while the group is Pending, and it is Pending afterwards.
GrowsOnlyWhilePending ==
    \A g \in (DOMAIN draft_groups) \cap (DOMAIN draft_groups') :
        (\/ ~(draft_groups'[g].draft_indices \subseteq draft_groups[g].draft_indices)
         \/ draft_groups'[g].total_amount > draft_groups[g].total_amount)
            => /\ draft_groups[g].state = "Pending"
               /\ draft_groups'[g].state = "Pending"

\* C14: create_drafts fails, storing no draft and changing no group, if a
\* draft of the batch targets a group that is Funded, Discarded or absent;
\* the draft set and total_amount of a group grow only while it is Pending.
C14_CreateNeedsPending ==
    /\ [](CreateRefusedForClosedGroup)
    /\ [][GrowsOnlyWhilePending]_vars

\* A group is stored as Funded, another has been removed, there is room for
\* another draft, and a valid draft for the Funded group is refused, as is
\* one for the absent group.
C14_Witness ==
    /\ next_draft_id < MaxDrafts
    /\ \E g \in DOMAIN draft_groups, h \in GroupIds :
          /\ draft_groups[g].state = "Funded"
          /\ h \notin DOMAIN draft_groups
          /\ h < next_draft_group_id
          /\ create_drafts(State, Payer, << Draft(g, "bob", Late, None) >>).res
                 = "InvalidState"
          /\ create_drafts(State, Payer, << Draft(h, "bob", Late, None) >>).res
                 = "NotFound"


\* What C15 says of the requests at a state: discard_draft_group of a Funded
\* group fails and changes nothing; of another stored group it stores the
\* group as Discarded if it has drafts and removes it if it has none,
\* changing nothing else; a delete_drafts that succeeds removes exactly the
\* groups it takes the last draft of; no stored Discarded group is empty.
DiscardAndPrune ==
    /\ \A account_id \in Accounts, g \in DOMAIN draft_groups :
          assert_draft_operators_whitelist(account_id) =>
              LET out == discard_draft_group(State, account_id, g)
                  draft_group == draft_groups[g]
              IN IF draft_group.state = "Funded"
                 THEN out.res = "InvalidState" /\ out.st = State
                 ELSE /\ out.res = "ok"
                      /\ out.st = [State EXCEPT !.draft_groups =
                                     IF draft_group.draft_indices = {}
                                     THEN MapRemove(draft_groups, g)
                                     ELSE MapPut(draft_groups, g,
                                              [draft_group EXCEPT !.state = "Discarded"])]
    /\ \A draft_ids \in SeqsUpTo(Indices, MaxBatch) :
          LET out == delete_drafts(State, draft_ids)
          IN out.res = "ok" =>
                \A g \in DOMAIN draft_groups :
                    IF draft_groups[g].draft_indices \cap Range(draft_ids) = {}
                    THEN g \in DOMAIN out.st.draft_groups
                            /\ out.st.draft_groups[g] = draft_groups[g]
                    ELSE g \in DOMAIN out.st.draft_groups
                            <=> draft_groups[g].draft_indices \ Range(draft_ids) /= {}
    /\ \A g \in DOMAIN draft_groups :
          ~(draft_groups[g].state = "Discarded" /\ draft_groups[g].draft_indices = {})

\* What C15 says of a step: a Discarded group stays Discarded while it is
\* stored, and a group that has been removed is not stored again.
DiscardedIsFinal ==
    /\ \A g \in DOMAIN draft_groups :
          draft_groups[g].state = "Discarded" =>
              (g \in DOMAIN draft_groups' => draft_groups'[g].state = "Discarded")
    /\ \A g \in GroupIds :
          (g < next_draft_group_id /\ g \notin DOMAIN draft_groups)
              => g \notin DOMAIN draft_groups'

\* C15: discard_draft_group fails on a Funded group and changes nothing; on
\* another group it sets the state to Discarded, and removes the group if
\* and only if its draft set is empty; a delete_drafts that empties a group
\* removes it; no Discarded group with an empty draft set is stored, and a
\* Discarded group never becomes Pending or Funded again.
C15_DiscardIsFinal ==
    /\ [](DiscardAndPrune)
    /\ [][DiscardedIsFinal]_vars

\* A Funded group and a Discarded group with a draft are stored: the first
\* cannot be discarded, and deleting the draft of the second removes it.
C15_Witness ==
    \E g, h \in DOMAIN draft_groups :
        /\ draft_groups[g].state = "Funded"
        /\ draft_groups[h].state = "Discarded"
        /\ discard_draft_group(State, Payer, g).res = "InvalidState"
        /\ \E d \in draft_groups[h].draft_indices :
              LET out == delete_drafts(State, << d >>)
              IN out.res = "ok" /\ h \notin DOMAIN out.st.draft_groups


DepositInputs == {0, 1, 2}

Denied(out) == out.res = "Unauthorized" /\ out.st = State /\ out.transfer = NoTransfer

\* C16: terminate by a caller outside the deposit whitelist, or with a
\* deposit other than one yocto, and create_draft_group, create_drafts and
\* discard_draft_group by a caller in neither whitelist, fail as
\* unauthorised and change no state; a caller who is authorised is never
\* refused as unauthorised; delete_drafts checks no caller.
C16_OperatorsOnly ==
    /\ \A account_id \in Accounts, deposit \in DepositInputs, lockup_index \in Indices,
          termination_timestamp \in TimestampInputs :
          LET out == terminate(State, account_id, deposit, lockup_index,
                               termination_timestamp, now)
          IN IF account_id \notin deposit_whitelist \/ deposit /= 1
             THEN Denied(out)
             ELSE out.res /= "Unauthorized"
    /\ \A account_id \in Accounts :
          LET allowed == account_id \in deposit_whitelist \cup draft_operators_whitelist
              Settled(out) == IF allowed THEN out.res /= "Unauthorized" ELSE Denied(out)
          IN /\ Settled(create_draft_group(State, account_id))
             /\ \A batch \in SeqsUpTo(DraftInputs, MaxBatch) :
                   next_draft_id + Len(batch) <= MaxDrafts
                       => Settled(create_drafts(State, account_id, batch))
             /\ \A g \in GroupIds : Settled(discard_draft_group(State, account_id, g))
    /\ \A draft_ids \in SeqsUpTo(Indices, MaxBatch) :
          delete_drafts(State, draft_ids).res /= "Unauthorized"

\* alice is on the deposit whitelist with the payer and nobody is a draft
\* operator.  A lockup can be terminated and a Pending group can take a draft
\* and be discarded: alice and the payer succeed, and bob, and alice without
\* the deposit, are refused.
C16_Witness ==
    /\ next_draft_id < MaxDrafts
    /\ deposit_whitelist = {Payer, "alice"}
    /\ draft_operators_whitelist = {}
    /\ \E i \in LockupIds, g \in DOMAIN draft_groups :
          /\ terminate(State, "alice", 1, i, None, now).res = "ok"
          /\ terminate(State, "alice", 0, i, None, now).res = "Unauthorized"
          /\ terminate(State, Payer, 1, i, None, now).res = "ok"
          /\ terminate(State, "bob", 1, i, None, now).res = "Unauthorized"
          /\ create_drafts(State, "alice", << Draft(g, "bob", Late, None) >>).res = "ok"
          /\ create_drafts(State, "bob", << Draft(g, "bob", Late, None) >>).res
                 = "Unauthorized"
          /\ discard_draft_group(State, "alice", g).res = "ok"
          /\ discard_draft_group(State, "bob", g).res = "Unauthorized"


\* What is unlocked and not yet claimed in the stored lockup i.
Claimable(i) ==
    unlocked_balance(LockupAt(State, i).schedule, now) - LockupAt(State, i).claimed_balance

\* The increment C17 gives lockup i in a claim with these amounts.
Increment(amounts, i) ==
    IF amounts = None \/ amounts[1][i] = None THEN Claimable(i)
    ELSE Min(amounts[1][i][1], Claimable(i))

\* C17: a claim of lockups of the caller's index set returns unless a u128
\* is exceeded, by the sum of the increments or by a selected lockup that is
\* claimed beyond what is unlocked, and then it fails with Overflow; in a
\* claim that returns, in whatever order the lockups were visited, each
\* selected lockup's claimed_balance grows by min(requested or
\* defaulted amount, unlocked_balance(now) - claimed_balance) and nothing
\* else is written; the recorded list has one entry per lockup with a
\* non-zero increment, with that increment; one transfer to the caller is
\* issued for the sum of the increments, and if the sum is zero no transfer
\* is issued and the state is unchanged.
C17_ClaimIncrements ==
    \A account_id \in Owners, amounts \in ClaimInputs :
      \A out \in ClaimOutcomes(account_id, amounts) :
        LET ids == ClaimIds(State, account_id, amounts)
            paid == {i \in ids : Increment(amounts, i) > 0}
            total == SumOver(ids, [i \in ids |-> Increment(amounts, i)])
        IN /\ ids \subseteq IndicesOf(State, account_id) =>
                 out.res = IF \E i \in ids : Claimable(i) < 0 THEN "Overflow"
                           ELSE IF total <= BalanceLimit THEN "ok" ELSE "Overflow"
           /\ out.res = "ok" =>
              /\ out.st = [State EXCEPT !.lockups = out.st.lockups]
              /\ Len(out.st.lockups) = Len(lockups)
              /\ \A i \in LockupIds :
                    LockupAt(out.st, i) =
                        IF i \in paid
                        THEN [LockupAt(State, i) EXCEPT
                                 !.claimed_balance = @ + Increment(amounts, i)]
                        ELSE LockupAt(State, i)
              /\ IF total = 0
                 THEN out.transfer = NoTransfer /\ out.st = State
                 ELSE /\ out.transfer /= NoTransfer
                      /\ out.transfer[1].kind = "claim"
                      /\ out.transfer[1].receiver_id = account_id
                      /\ out.transfer[1].amount = total
                      /\ Len(out.transfer[1].lockup_claims) = Cardinality(paid)
                      /\ Range(out.transfer[1].lockup_claims)
                             = {[index |-> i, claim_amount |-> Increment(amounts, i)] :
                                    i \in paid}

\* An account has a lockup with everything unlocked so far claimed and
\* another with something to claim: a claim of the first alone pays nothing
\* and changes nothing, a claim of all records the second only, and a
\* request for one unit of two unlocked takes one.
C17_Witness ==
    \E account_id \in Owners :
        \E i, j \in IndicesOf(State, account_id) :
            /\ LockupAt(State, i).claimed_balance > 0
            /\ Claimable(i) = 0
            /\ Claimable(j) = 2
            /\ ClaimOne(account_id, i, None).res = "ok"
            /\ ClaimOne(account_id, i, None).transfer = NoTransfer
            /\ \A out \in ClaimOutcomes(account_id, None) :
                  out.res = "ok" /\ Len(out.transfer[1].lockup_claims) = 1
            /\ ClaimOne(account_id, j, Some(1)).transfer[1].amount = 1


Terminated(i) == ledger.lockups[i + 1].terminated /= None

IsClaim(promise) == promise.kind = "claim"

\* What C18 says of a state.  terminate stores the lockup before it issues
\* the transfer, and the transfer and its callback carry the receiver and
\* the amount only: each termination transfer in flight is that of a lockup
\* stored as terminated.  A terminated lockup, whatever became of the
\* transfer, has no termination_config, is cut at the vested amount with the
\* schedule terminate gave it, is in its owner's index set unless nothing
\* vested, and cannot be terminated again.  The callback of a failed claim
\* transfer takes the claimed amounts back.
TerminationStands ==
    /\ \A k \in 1..Len(promises) :
          IF promises[k].kind = "terminate"
          THEN /\ promises[k].lockup_claims = << >>
               /\ promises[k].amount > 0
               /\ \E i \in LockupIds :
                     /\ Terminated(i)
                     /\ ledger.lockups[i + 1].unvested = promises[k].amount
          ELSE LET out == after_ft_transfer(State, promises[k].lockup_claims, FALSE)
               IN /\ out.res = "ok"
                  /\ \A j \in 1..Len(promises[k].lockup_claims) :
                        LET c == promises[k].lockup_claims[j]
                        IN LockupAt(out.st, c.index).claimed_balance
                               = LockupAt(State, c.index).claimed_balance - c.claim_amount
    /\ \A i \in LockupIds :
          Terminated(i) =>
              LET done == ledger.lockups[i + 1].terminated[1]
                  lockup == LockupAt(State, i)
              IN /\ lockup.termination_config = None
                 /\ total_balance(lockup.schedule) = done.vested
                 /\ lockup.schedule =
                        IF ledger.lockups[i + 1].unvested > 0
                        THEN schedule_terminate(done.schedule, done.vested, done.timestamp)
                        ELSE done.schedule
                 /\ i \in IndicesOf(State, lockup.account_id) <=> done.vested > 0
                 /\ \A caller \in TerminateCallers, termination_timestamp \in TimestampInputs :
                       LET out == TerminateOutcome(caller, i, termination_timestamp)
                       IN out.res /= "ok" /\ out.transfer = NoTransfer /\ out.st = State

\* What C18 says of a step: no step changes the schedule, the owner, the
\* empty config or the index entry of a terminated lockup, and none but a
\* claim or the callback of a claim transfer changes its claimed_balance.
TerminationKept ==
    \A i \in LockupIds :
        Terminated(i) =>
            /\ HasLockup(State', i)
            /\ LockupAt(State', i).schedule = LockupAt(State, i).schedule
            /\ LockupAt(State', i).account_id = LockupAt(State, i).account_id
            /\ LockupAt(State', i).termination_config = None
            /\ i \in IndicesOf(State', LockupAt(State, i).account_id)
                   <=> i \in IndicesOf(State, LockupAt(State, i).account_id)
            /\ LockupAt(State', i).claimed_balance /= LockupAt(State, i).claimed_balance
                   => SelectSeq(promises', IsClaim) /= SelectSeq(promises, IsClaim)

\* C18: termination is never rolled back: when the transfer of the unvested
\* amount fails the lockup stays as terminate left it, config empty,
\* schedule cut at the vested amount, claimed_balance and index unchanged,
\* and it cannot be terminated again; a failed claim transfer is rolled back.
C18_TerminationNotRolledBack ==
    /\ [](TerminationStands)
    /\ [][TerminationKept]_vars

\* A lockup was terminated with part of it unvested, the callback of that
\* transfer has run, and the lockup is cut at the vested amount.
C18_Witness ==
    /\ promises = << >>
    /\ \E i \in LockupIds :
          /\ Terminated(i)
          /\ ledger.lockups[i + 1].unvested > 0
          /\ LockupAt(State, i).claimed_balance > 0
          /\ LockupAt(State, i).termination_config = None
          /\ total_balance(LockupAt(State, i).schedule)
                 = ledger.lockups[i + 1].total - ledger.lockups[i + 1].unvested


\* What C19 says of a step, for every stored lockup: claimed_balance drops
\* only in the failure callback of a claim transfer, grows only in a claim,
\* and then to no more than unlocked_balance(now); in every other step it is
\* unchanged.
ClaimedMoves ==
    \A i \in LockupIds :
        LET before == LockupAt(State, i).claimed_balance
            after == LockupAt(State', i).claimed_balance
        IN /\ HasLockup(State', i)
           /\ after < before => \E k \in 1..MaxPromises : AfterFtTransfer(k, FALSE)
           /\ after > before =>
                 /\ \E account_id \in Owners, amounts \in ClaimInputs :
                       \E order \in IterationOrders(ClaimIds(State, account_id, amounts)) :
                           Claim(account_id, amounts, order)
                 /\ after - before <= Claimable(i)

\* C19: for every lockup claimed_balance is non-decreasing across every step
\* except the failure callback of a claim transfer: claim raises it by at
\* most unlocked_balance(now) - claimed_balance, and terminate, the
\* termination callback, the success callback of a claim and the draft
\* operations leave it unchanged.
C19_ClaimedMonotone == [][ClaimedMoves]_vars

\* A lockup has been claimed from and then terminated while the transfer of
\* the claim is still in flight, so that its failure callback can run.
C19_Witness ==
    \E i \in LockupIds, k \in 1..Len(promises) :
        /\ LockupAt(State, i).claimed_balance > 0
        /\ Terminated(i)
        /\ promises[k].kind = "claim"
        /\ \E j \in 1..Len(promises[k].lockup_claims) :
              promises[k].lockup_claims[j].index = i


\* Every index of every account's set is a stored lockup of that account.
IndexSound(st) ==
    \A a \in DOMAIN st.account_lockups :
        \A i \in st.account_lockups[a] :
            /\ i < Len(st.lockups)
            /\ HasLockup(st, i)
            /\ LockupAt(st, i).account_id = a

\* C20: every index stored in an account's index set is less than the number
\* of stored lockups and refers to a lockup of that account, so the store
\* lookups of internal_get_account_lockups and
\* internal_get_account_lockups_by_id never fail, and no claim does on them.
C20_IndexSound ==
    /\ IndexSound(State)
    /\ \A a \in Accounts :
          /\ internal_get_account_lockups(State, a).res = "ok"
          /\ \A ids \in SUBSET IndicesOf(State, a) :
                \A order \in IterationOrders(ids) :
                    internal_get_account_lockups_by_id(State, a, ids, order).res = "ok"
    /\ \A account_id \in Owners, amounts \in ClaimInputs :
          \A out \in ClaimOutcomes(account_id, amounts) : out.res /= "Invariant"

\* An account whose only lockup was terminated with nothing vested has been
\* pruned from the map, and a group holding a draft of the same account is
\* funded: the account is mapped again, to the index of the new lockup alone.
C20_Witness ==
    \E a \in Owners, i \in LockupIds, d \in DOMAIN drafts :
        /\ LockupAt(State, i).account_id = a
        /\ DrainedByTermination(i)
        /\ a \notin DOMAIN account_lockups
        /\ drafts[d].account_id = a
        /\ LET g == drafts[d].draft_group_id
               out == fund_draft_group(State, g, draft_groups[g].total_amount)
           IN /\ out.res = "ok"
              /\ IndicesOf(out.st, a) = {Len(lockups)}
              /\ IndexSound(out.st)


\* What C21 says of a state: every stored draft has an id below
\* next_draft_id and names a stored group, of id below next_draft_group_id,
\* that has the draft in its set; every id of a stored group's set is a
\* stored draft of that group; and no id is in the sets of two groups.
DraftsAndGroupsAgree ==
    /\ \A d \in DOMAIN drafts :
          /\ d < next_draft_id
          /\ drafts[d].draft_group_id \in DOMAIN draft_groups
          /\ drafts[d].draft_group_id < next_draft_group_id
          /\ d \in draft_groups[drafts[d].draft_group_id].draft_indices
    /\ \A g \in DOMAIN draft_groups :
          /\ g < next_draft_group_id
          /\ \A d \in draft_groups[g].draft_indices :
                d \in DOMAIN drafts /\ drafts[d].draft_group_id = g
    /\ \A g, h \in DOMAIN draft_groups :
          g /= h => draft_groups[g].draft_indices \cap draft_groups[h].draft_indices = {}

\* What C21 says of a step: the two counters never go back, a draft or a
\* group that is new in the store has an id the counter had not reached
\* before the step and has passed after it, and a stored draft keeps its
\* group.
IdsNeverReused ==
    /\ next_draft_id' >= next_draft_id
    /\ next_draft_group_id' >= next_draft_group_id
    /\ \A d \in (DOMAIN drafts') \ (DOMAIN drafts) :
          next_draft_id <= d /\ d < next_draft_id'
    /\ \A g \in (DOMAIN draft_groups') \ (DOMAIN draft_groups) :
          next_draft_group_id <= g /\ g < next_draft_group_id'
    /\ \A d \in (DOMAIN drafts') \cap (DOMAIN drafts) : drafts'[d] = drafts[d]

\* C21: every stored draft has an id < next_draft_id, names a stored group
\* with id < next_draft_group_id and is in that group's draft set; every id
\* of a group's draft set is a stored draft with that group id, in one group
\* only; the ids create_draft_group and create_drafts hand out grow
\* strictly and are never reused, also after deletion or pruning.
C21_DraftIntegrity ==
    /\ [](DraftsAndGroupsAgree)
    /\ [][IdsNeverReused]_vars

\* The first draft has been deleted and its group removed, no lockup was
\* made of it, and the draft and the group stored now carry the next ids.
C21_Witness ==
    /\ lockups = << >>
    /\ next_draft_id = 2
    /\ next_draft_group_id = 2
    /\ DOMAIN drafts = {1}
    /\ DOMAIN draft_groups = {1}
    /\ draft_groups[1].draft_indices = {1}


\* The increments of the claim transfers in flight that were taken from the
\* stored lockup i.
RECURSIVE InFlight(_, _)
InFlight(q, i) ==
    IF q = << >> THEN 0
    ELSE (IF Head(q).kind = "claim" THEN AmountFor(Head(q).lockup_claims, i) ELSE 0)
             + InFlight(Tail(q), i)

\* C22: whatever claims, terminations and callbacks have run since a claim
\* transfer was issued, at its failure callback every lockup of its list has
\* a claimed_balance of at least the increment taken back, so that the
\* callback does not fail, even if every transfer in flight fails; and
\* before and after it claimed_balance is the sum of the increments of the
\* claims on the lockup that have not been rolled back, and is no more than
\* unlocked_balance(now).
C22_RollbackUnderInterleaving ==
    /\ \A i \in LockupIds :
          /\ LockupAt(State, i).claimed_balance = ledger.lockups[i + 1].transferred
          /\ LockupAt(State, i).claimed_balance >= InFlight(promises, i)
    /\ \A k \in 1..Len(promises) :
          promises[k].kind = "claim" =>
              LET lockup_claims == promises[k].lockup_claims
                  out == after_ft_transfer(State, lockup_claims, FALSE)
              IN /\ out.res = "ok"
                 /\ out.transfer = NoTransfer
                 /\ \A i \in LockupIds :
                       LET left == LockupAt(out.st, i).claimed_balance
                       IN /\ LockupAt(State, i).claimed_balance
                                 >= AmountFor(lockup_claims, i)
                          /\ left = ledger.lockups[i + 1].transferred
                                       - AmountFor(lockup_claims, i)
                          /\ left >= 0
                          /\ left <= unlocked_balance(LockupAt(out.st, i).schedule, now)

====
